---- MODULE Spec2Model ----
(***************************************************************************)
(* Resilience layer of the TRC-8004 M2M SDK: the retry engine              *)
(* (utils/retry.py), the ledger write path and the choice of contract      *)
(* overload (blockchain/tron_client.py), the validation methods of the     *)
(* AgentRegistry and its register_agent (registry.py), the backend client  *)
(* (api/client.py), canonical JSON, the document hash and normalize_hash   *)
(* (utils/crypto.py), the IPFS gateway fetch (storage/ipfs.py) and the URI *)
(* loader (utils/chain_utils.py).  Two calls of a decorated function on one*)
(* event loop are a running wrapper frame and a suspended one.             *)
(*                                                                         *)
(* A text is a sequence of words, each word spelled character by character *)
(* in Spell, so that str(error), lower(), substring search, startswith,    *)
(* replace and rstrip are computed on characters as Python computes them.  *)
(* Delays are in milliseconds.                                             *)
(***************************************************************************)
EXTENDS Integers, Sequences, FiniteSets, TLC

\* ------------------------------------------------------------------ bounds

\* Largest max_attempts a caller-supplied RetryConfig takes in SpecRetry.
MaxAttempts == 3

\* ------------------------------------------------------------------- texts

\* The literals of the source, and the texts the callers and the network give.

KwTimeout == <<"timeout">>

KwConnection == <<"connection">>

KwNetwork == <<"network">>

KwUnavailable == <<"unavailable">>

KwRefused == <<"refused">>

KwRpc == <<"rpc">>

KwNode == <<"node">>

KwGateway == <<"gateway">>

CodeConfiguration == <<"CONFIGURATION_ERROR">>

CodeContract == <<"CONTRACT_ERROR">>

CodeNetwork == <<"NETWORK_ERROR">>

CodeStorage == <<"STORAGE_ERROR">>

MsgPrivateKeyRequired == <<"Private key required for write operations">>

MsgNoAddressPrefix == <<"No address configured for ">>

MsgNoAddressSuffix == <<" contract">>

MsgTransactionFailed == <<"Transaction failed: ">>

MsgAllGatewaysFailed == <<"All IPFS gateways failed: ">>

MsgFetchIpfsFailed == <<"Failed to fetch from IPFS: ">>

MsgFetchUrlFailed == <<"Failed to fetch from URL: ">>

MsgFileNotFound == <<"File not found: ">>

NameIdentity == <<"identity">>

NameRegister == <<"register">>

NameValidation == <<"validation">>

NameReputation == <<"reputation">>

FnValidationRequest == <<"validationRequest">>

FnCompleteValidation == <<"completeValidation">>

FnRejectValidation == <<"rejectValidation">>

FnGiveFeedback == <<"giveFeedback">>

FnAppendResponse == <<"appendResponse">>

SentimentNeutral == <<"neutral">>

SentimentPositive == <<"positive">>

SentimentNegative == <<"negative">>

MsgInvalidSentiment == <<"Invalid sentiment: ">>

MsgMustBe == <<". Must be positive/neutral/negative">>

HexPrefix == <<"0x">>

MsgFromHex == <<"non-hexadecimal number found in fromhex() arg at position ">>

JsonNull == <<"null">>

JsonTrue == <<"true">>

JsonFalse == <<"false">>

GatewayIpfsIo == <<"https://ipfs.io/ipfs">>

GatewayPinata == <<"https://gateway.pinata.cloud/ipfs">>

GatewayCloudflare == <<"https://cloudflare-ipfs.com/ipfs">>

GatewayCustom == <<"https://my.gw/ipfs/">>

SchemeFile == <<"file://">>

SchemeIpfs == <<"ipfs://">>

SchemeHttp == <<"http://">>

SchemeHttps == <<"https://">>

TxtReadTimeout == <<"Read timeout">>

TxtConnectionRefused == <<"Connection refused">>

TxtRevert == <<"REVERT opcode executed">>

TxtInvalidSentiment == <<"Invalid sentiment: bad">>

TxtNotFound404 == <<"Client error '404 Not Found'">>

TxtForUrl == <<" for url '">>

TxtQuote == <<"'">>

TxtPermissionDenied == <<"[Errno 13] Permission denied: '">>

UriIpfs1 == <<"ipfs://Qm1">>

UriIpfs2 == <<"ipfs://Qm2">>

UriFile == <<"file:///d/a.json">>

UriHttp == <<"http://h/x">>

UriHttps == <<"https://h/x">>

UriInline == <<"{\"a\":1}">>

UriUpper == <<"IPFS://Qm1">>

UriEmbedded == <<"see ipfs://Qm1">>

UriFtp == <<"ftp://h/x">>

CidBare == <<"Qm1">>

CidOther == <<"Qm2">>

PathFile == <<"/d/a.json">>

TxtNeutralCapital == <<"Neutral">>

TxtNegativeUpper == <<"NEGATIVE">>

TxtBad == <<"bad">>

TxtVeryPositive == <<"very positive">>

TxtNodeDown == <<"node down">>

TxtGreat == <<"great">>

TxtThanks == <<"thanks">>

TxtTag == <<"x">>

TxtEndpoint == <<"/v1">>

TxtClient == <<"TClient">>

TxtValidator == <<"TValidator">>

HexZero32 == <<"0000000000000000000000000000000000000000000000000000000000000000">>

HexOne32 == <<"0000000000000000000000000000000000000000000000000000000000000001">>

HexZero31 == <<"00000000000000000000000000000000000000000000000000000000000000">>

JsonNested == <<"{\"a\":{\"c\":[1],\"d\":\"x\"},\"b\":2}">>

JsonEmpty == <<"{}">>

TxtRequestId == <<"0xAb01">>

TxtRequestIdBare == <<"ab01">>

TxtRequestIdOdd == <<"0xab0">>

TxtRequestIdBad == <<"0xzz">>

TxtQuoted == <<"q\"r">>

JsonMixedCase == <<"{\"B\":true,\"a\":{\"c\":[1],\"d\":\"x\"},\"b\":2}">>

JsonPrefixKeys == <<"{\"a\":\"q\\\"r\",\"aB\":false,\"ab\":[{\"y\":-10,\"z\":null}]}">>

JsonDigitKeys == <<"{\"\":\"\",\"10\":{\"\":0,\" \":1},\"9\":1,\"\\\\\":3}">>

TxtNodejs == <<"internode.js">>

TxtTimeOut == <<"time out">>

TxtGateWay == <<"gate-way">>

TxtUnauthorized == <<"401 Unauthorized">>

TxtServiceUnavailable == <<"503 Service Unavailable">>

TxtConnect == <<"connect">>

MsgAgent == <<"Agent ">>

MsgNotFound == <<" not found">>

MsgFailedGetAgent == <<"Failed to get agent: ">>

MsgApiRequestFailed == <<"API request failed: ">>

MsgSyncFailed == <<"Sync failed: ">>

MsgUploadFailed == <<"IPFS upload failed: ">>

TxtServerError500 == <<"Server error '500 Internal Server Error'">>

TxtKeyUri == <<"'uri'">>

TxtAllAttemptsFailed == <<"All connection attempts failed">>

TxtApiBase == <<"https://api.example">>

PathAgents == <<"/agents/">>

PathSync == <<"/sync">>

PathUpload == <<"/storage/upload">>

TxtTxId == <<"5f2c">>

KeyName == <<"name">>

KeyDescription == <<"description">>

KeyVersion == <<"version">>

KeySkills == <<"skills">>

KeyEndpoints == <<"endpoints">>

KeyTags == <<"tags">>

TxtAgentName == <<"Scout">>

TxtAgentAbout == <<"finds routes">>

TxtVersion1 == <<"1.0.0">>


\* The spelling of every word above, character by character.
Spell ==
    "timeout" :> <<"t","i","m","e","o","u","t">> @@
    "connection" :> <<"c","o","n","n","e","c","t","i","o","n">> @@
    "network" :> <<"n","e","t","w","o","r","k">> @@
    "unavailable" :> <<"u","n","a","v","a","i","l","a","b","l","e">> @@
    "refused" :> <<"r","e","f","u","s","e","d">> @@
    "rpc" :> <<"r","p","c">> @@
    "node" :> <<"n","o","d","e">> @@
    "gateway" :> <<"g","a","t","e","w","a","y">> @@
    "CONFIGURATION_ERROR" :> <<"C","O","N","F","I","G","U","R","A","T","I","O","N","_","E","R","R","O","R">> @@
    "CONTRACT_ERROR" :> <<"C","O","N","T","R","A","C","T","_","E","R","R","O","R">> @@
    "NETWORK_ERROR" :> <<"N","E","T","W","O","R","K","_","E","R","R","O","R">> @@
    "STORAGE_ERROR" :> <<"S","T","O","R","A","G","E","_","E","R","R","O","R">> @@
    "Private key required for write operations" :> <<"P","r","i","v","a","t","e"," ","k","e","y"," ","r","e","q","u","i","r","e","d"," ","f","o","r"," ","w","r","i","t","e"," ","o","p","e","r","a","t","i","o","n","s">> @@
    "No address configured for " :> <<"N","o"," ","a","d","d","r","e","s","s"," ","c","o","n","f","i","g","u","r","e","d"," ","f","o","r"," ">> @@
    " contract" :> <<" ","c","o","n","t","r","a","c","t">> @@
    "Transaction failed: " :> <<"T","r","a","n","s","a","c","t","i","o","n"," ","f","a","i","l","e","d",":"," ">> @@
    "All IPFS gateways failed: " :> <<"A","l","l"," ","I","P","F","S"," ","g","a","t","e","w","a","y","s"," ","f","a","i","l","e","d",":"," ">> @@
    "Failed to fetch from IPFS: " :> <<"F","a","i","l","e","d"," ","t","o"," ","f","e","t","c","h"," ","f","r","o","m"," ","I","P","F","S",":"," ">> @@
    "Failed to fetch from URL: " :> <<"F","a","i","l","e","d"," ","t","o"," ","f","e","t","c","h"," ","f","r","o","m"," ","U","R","L",":"," ">> @@
    "File not found: " :> <<"F","i","l","e"," ","n","o","t"," ","f","o","u","n","d",":"," ">> @@
    "identity" :> <<"i","d","e","n","t","i","t","y">> @@
    "register" :> <<"r","e","g","i","s","t","e","r">> @@
    "validation" :> <<"v","a","l","i","d","a","t","i","o","n">> @@
    "reputation" :> <<"r","e","p","u","t","a","t","i","o","n">> @@
    "validationRequest" :> <<"v","a","l","i","d","a","t","i","o","n","R","e","q","u","e","s","t">> @@
    "completeValidation" :> <<"c","o","m","p","l","e","t","e","V","a","l","i","d","a","t","i","o","n">> @@
    "rejectValidation" :> <<"r","e","j","e","c","t","V","a","l","i","d","a","t","i","o","n">> @@
    "giveFeedback" :> <<"g","i","v","e","F","e","e","d","b","a","c","k">> @@
    "appendResponse" :> <<"a","p","p","e","n","d","R","e","s","p","o","n","s","e">> @@
    "neutral" :> <<"n","e","u","t","r","a","l">> @@
    "positive" :> <<"p","o","s","i","t","i","v","e">> @@
    "negative" :> <<"n","e","g","a","t","i","v","e">> @@
    "Invalid sentiment: " :> <<"I","n","v","a","l","i","d"," ","s","e","n","t","i","m","e","n","t",":"," ">> @@
    ". Must be positive/neutral/negative" :> <<"."," ","M","u","s","t"," ","b","e"," ","p","o","s","i","t","i","v","e","/","n","e","u","t","r","a","l","/","n","e","g","a","t","i","v","e">> @@
    "0x" :> <<"0","x">> @@
    "non-hexadecimal number found in fromhex() arg at position " :> <<"n","o","n","-","h","e","x","a","d","e","c","i","m","a","l"," ","n","u","m","b","e","r"," ","f","o","u","n","d"," ","i","n"," ","f","r","o","m","h","e","x","(",")"," ","a","r","g"," ","a","t"," ","p","o","s","i","t","i","o","n"," ">> @@
    "null" :> <<"n","u","l","l">> @@
    "true" :> <<"t","r","u","e">> @@
    "false" :> <<"f","a","l","s","e">> @@
    "https://ipfs.io/ipfs" :> <<"h","t","t","p","s",":","/","/","i","p","f","s",".","i","o","/","i","p","f","s">> @@
    "https://gateway.pinata.cloud/ipfs" :> <<"h","t","t","p","s",":","/","/","g","a","t","e","w","a","y",".","p","i","n","a","t","a",".","c","l","o","u","d","/","i","p","f","s">> @@
    "https://cloudflare-ipfs.com/ipfs" :> <<"h","t","t","p","s",":","/","/","c","l","o","u","d","f","l","a","r","e","-","i","p","f","s",".","c","o","m","/","i","p","f","s">> @@
    "https://my.gw/ipfs/" :> <<"h","t","t","p","s",":","/","/","m","y",".","g","w","/","i","p","f","s","/">> @@
    "file://" :> <<"f","i","l","e",":","/","/">> @@
    "ipfs://" :> <<"i","p","f","s",":","/","/">> @@
    "http://" :> <<"h","t","t","p",":","/","/">> @@
    "https://" :> <<"h","t","t","p","s",":","/","/">> @@
    "Read timeout" :> <<"R","e","a","d"," ","t","i","m","e","o","u","t">> @@
    "Connection refused" :> <<"C","o","n","n","e","c","t","i","o","n"," ","r","e","f","u","s","e","d">> @@
    "REVERT opcode executed" :> <<"R","E","V","E","R","T"," ","o","p","c","o","d","e"," ","e","x","e","c","u","t","e","d">> @@
    "Invalid sentiment: bad" :> <<"I","n","v","a","l","i","d"," ","s","e","n","t","i","m","e","n","t",":"," ","b","a","d">> @@
    "Client error '404 Not Found'" :> <<"C","l","i","e","n","t"," ","e","r","r","o","r"," ","'","4","0","4"," ","N","o","t"," ","F","o","u","n","d","'">> @@
    " for url '" :> <<" ","f","o","r"," ","u","r","l"," ","'">> @@
    "'" :> <<"'">> @@
    "[Errno 13] Permission denied: '" :> <<"[","E","r","r","n","o"," ","1","3","]"," ","P","e","r","m","i","s","s","i","o","n"," ","d","e","n","i","e","d",":"," ","'">> @@
    "ipfs://Qm1" :> <<"i","p","f","s",":","/","/","Q","m","1">> @@
    "ipfs://Qm2" :> <<"i","p","f","s",":","/","/","Q","m","2">> @@
    "file:///d/a.json" :> <<"f","i","l","e",":","/","/","/","d","/","a",".","j","s","o","n">> @@
    "http://h/x" :> <<"h","t","t","p",":","/","/","h","/","x">> @@
    "https://h/x" :> <<"h","t","t","p","s",":","/","/","h","/","x">> @@
    "{\"a\":1}" :> <<"{","\"","a","\"",":","1","}">> @@
    "IPFS://Qm1" :> <<"I","P","F","S",":","/","/","Q","m","1">> @@
    "see ipfs://Qm1" :> <<"s","e","e"," ","i","p","f","s",":","/","/","Q","m","1">> @@
    "ftp://h/x" :> <<"f","t","p",":","/","/","h","/","x">> @@
    "Qm1" :> <<"Q","m","1">> @@
    "Qm2" :> <<"Q","m","2">> @@
    "/d/a.json" :> <<"/","d","/","a",".","j","s","o","n">> @@
    "Neutral" :> <<"N","e","u","t","r","a","l">> @@
    "NEGATIVE" :> <<"N","E","G","A","T","I","V","E">> @@
    "bad" :> <<"b","a","d">> @@
    "very positive" :> <<"v","e","r","y"," ","p","o","s","i","t","i","v","e">> @@
    "node down" :> <<"n","o","d","e"," ","d","o","w","n">> @@
    "great" :> <<"g","r","e","a","t">> @@
    "thanks" :> <<"t","h","a","n","k","s">> @@
    "x" :> <<"x">> @@
    "/v1" :> <<"/","v","1">> @@
    "TClient" :> <<"T","C","l","i","e","n","t">> @@
    "TValidator" :> <<"T","V","a","l","i","d","a","t","o","r">> @@
    "0000000000000000000000000000000000000000000000000000000000000000" :> <<"0","0","0","0","0","0","0","0","0","0","0","0","0","0","0","0","0","0","0","0","0","0","0","0","0","0","0","0","0","0","0","0","0","0","0","0","0","0","0","0","0","0","0","0","0","0","0","0","0","0","0","0","0","0","0","0","0","0","0","0","0","0","0","0">> @@
    "0000000000000000000000000000000000000000000000000000000000000001" :> <<"0","0","0","0","0","0","0","0","0","0","0","0","0","0","0","0","0","0","0","0","0","0","0","0","0","0","0","0","0","0","0","0","0","0","0","0","0","0","0","0","0","0","0","0","0","0","0","0","0","0","0","0","0","0","0","0","0","0","0","0","0","0","0","1">> @@
    "00000000000000000000000000000000000000000000000000000000000000" :> <<"0","0","0","0","0","0","0","0","0","0","0","0","0","0","0","0","0","0","0","0","0","0","0","0","0","0","0","0","0","0","0","0","0","0","0","0","0","0","0","0","0","0","0","0","0","0","0","0","0","0","0","0","0","0","0","0","0","0","0","0","0","0">> @@
    "{\"a\":{\"c\":[1],\"d\":\"x\"},\"b\":2}" :> <<"{","\"","a","\"",":","{","\"","c","\"",":","[","1","]",",","\"","d","\"",":","\"","x","\"","}",",","\"","b","\"",":","2","}">> @@
    "{}" :> <<"{","}">> @@
    "0xAb01" :> <<"0","x","A","b","0","1">> @@
    "ab01" :> <<"a","b","0","1">> @@
    "0xab0" :> <<"0","x","a","b","0">> @@
    "0xzz" :> <<"0","x","z","z">> @@
    "q\"r" :> <<"q","\"","r">> @@
    "{\"B\":true,\"a\":{\"c\":[1],\"d\":\"x\"},\"b\":2}" :> <<"{","\"","B","\"",":","t","r","u","e",",","\"","a","\"",":","{","\"","c","\"",":","[","1","]",",","\"","d","\"",":","\"","x","\"","}",",","\"","b","\"",":","2","}">> @@
    "{\"a\":\"q\\\"r\",\"aB\":false,\"ab\":[{\"y\":-10,\"z\":null}]}" :> <<"{","\"","a","\"",":","\"","q","\\","\"","r","\"",",","\"","a","B","\"",":","f","a","l","s","e",",","\"","a","b","\"",":","[","{","\"","y","\"",":","-","1","0",",","\"","z","\"",":","n","u","l","l","}","]","}">> @@
    "{\"\":\"\",\"10\":{\"\":0,\" \":1},\"9\":1,\"\\\\\":3}" :> <<"{","\"","\"",":","\"","\"",",","\"","1","0","\"",":","{","\"","\"",":","0",",","\""," ","\"",":","1","}",",","\"","9","\"",":","1",",","\"","\\","\\","\"",":","3","}">> @@
    "internode.js" :> <<"i","n","t","e","r","n","o","d","e",".","j","s">> @@
    "time out" :> <<"t","i","m","e"," ","o","u","t">> @@
    "gate-way" :> <<"g","a","t","e","-","w","a","y">> @@
    "401 Unauthorized" :> <<"4","0","1"," ","U","n","a","u","t","h","o","r","i","z","e","d">> @@
    "503 Service Unavailable" :> <<"5","0","3"," ","S","e","r","v","i","c","e"," ","U","n","a","v","a","i","l","a","b","l","e">> @@
    "connect" :> <<"c","o","n","n","e","c","t">> @@
    "Agent " :> <<"A","g","e","n","t"," ">> @@
    " not found" :> <<" ","n","o","t"," ","f","o","u","n","d">> @@
    "Failed to get agent: " :> <<"F","a","i","l","e","d"," ","t","o"," ","g","e","t"," ","a","g","e","n","t",":"," ">> @@
    "API request failed: " :> <<"A","P","I"," ","r","e","q","u","e","s","t"," ","f","a","i","l","e","d",":"," ">> @@
    "Sync failed: " :> <<"S","y","n","c"," ","f","a","i","l","e","d",":"," ">> @@
    "IPFS upload failed: " :> <<"I","P","F","S"," ","u","p","l","o","a","d"," ","f","a","i","l","e","d",":"," ">> @@
    "Server error '500 Internal Server Error'" :> <<"S","e","r","v","e","r"," ","e","r","r","o","r"," ","'","5","0","0"," ","I","n","t","e","r","n","a","l"," ","S","e","r","v","e","r"," ","E","r","r","o","r","'">> @@
    "'uri'" :> <<"'","u","r","i","'">> @@
    "All connection attempts failed" :> <<"A","l","l"," ","c","o","n","n","e","c","t","i","o","n"," ","a","t","t","e","m","p","t","s"," ","f","a","i","l","e","d">> @@
    "https://api.example" :> <<"h","t","t","p","s",":","/","/","a","p","i",".","e","x","a","m","p","l","e">> @@
    "/agents/" :> <<"/","a","g","e","n","t","s","/">> @@
    "/sync" :> <<"/","s","y","n","c">> @@
    "/storage/upload" :> <<"/","s","t","o","r","a","g","e","/","u","p","l","o","a","d">> @@
    "5f2c" :> <<"5","f","2","c">> @@
    "name" :> <<"n","a","m","e">> @@
    "description" :> <<"d","e","s","c","r","i","p","t","i","o","n">> @@
    "version" :> <<"v","e","r","s","i","o","n">> @@
    "skills" :> <<"s","k","i","l","l","s">> @@
    "endpoints" :> <<"e","n","d","p","o","i","n","t","s">> @@
    "tags" :> <<"t","a","g","s">> @@
    "Scout" :> <<"S","c","o","u","t">> @@
    "finds routes" :> <<"f","i","n","d","s"," ","r","o","u","t","e","s">> @@
    "1.0.0" :> <<"1",".","0",".","0">>

\* ------------------------------------------------------------ text helpers

\* A text is a sequence of words; a word is one of the strings Spell spells, or
\* a single character.  What Python computes on characters is computed here on
\* the characters of the text.

\* The characters of one word.
Chars(w) == IF w \in DOMAIN Spell THEN Spell[w] ELSE <<w>>

\* The characters of a text.
RECURSIVE Expand(_)
Expand(s) == IF s = <<>> THEN <<>> ELSE Chars(Head(s)) \o Expand(Tail(s))

\* The text of the characters cs: the word spelled cs when there is one.
Word(cs) ==
    IF \E w \in DOMAIN Spell : Spell[w] = cs
    THEN <<CHOOSE w \in DOMAIN Spell : Spell[w] = cs>>
    ELSE cs

\* a == b on strings
SameText(a, b) == Expand(a) = Expand(b)

UpperChars ==
    <<"A","B","C","D","E","F","G","H","I","J","K","L","M",
      "N","O","P","Q","R","S","T","U","V","W","X","Y","Z">>

LowerChars ==
    <<"a","b","c","d","e","f","g","h","i","j","k","l","m",
      "n","o","p","q","r","s","t","u","v","w","x","y","z">>

\* str.lower() on one character.
LowerChar(c) ==
    IF \E i \in 1..26 : UpperChars[i] = c
    THEN LowerChars[CHOOSE i \in 1..26 : UpperChars[i] = c]
    ELSE c

\* str.lower(): the characters of s, lower-cased.
Lower(s) == LET cs == Expand(s) IN [i \in 1..Len(cs) |-> LowerChar(cs[i])]

\* needle in hay, on characters.
ContainsChars(hay, needle) ==
    \E i \in 0..(Len(hay) - Len(needle)) :
        \A j \in 1..Len(needle) : hay[i + j] = needle[j]

StartsWithChars(cs, p) ==
    /\ Len(p) <= Len(cs)
    /\ \A j \in 1..Len(p) : cs[j] = p[j]

\* s.startswith(p)
StartsWith(s, p) == StartsWithChars(Expand(s), Expand(p))

RECURSIVE ReplaceAllChars(_, _)
ReplaceAllChars(cs, p) ==
    IF Len(cs) = 0
    THEN <<>>
    ELSE IF StartsWithChars(cs, p)
         THEN ReplaceAllChars(SubSeq(cs, Len(p) + 1, Len(cs)), p)
         ELSE <<Head(cs)>> \o ReplaceAllChars(Tail(cs), p)

\* s.replace(p, ""): every occurrence of the non-empty p removed, left to right.
ReplaceAll(s, p) == Word(ReplaceAllChars(Expand(s), Expand(p)))

RECURSIVE ReplaceFirstChars(_, _)
ReplaceFirstChars(cs, p) ==
    IF Len(cs) = 0
    THEN <<>>
    ELSE IF StartsWithChars(cs, p)
         THEN SubSeq(cs, Len(p) + 1, Len(cs))
         ELSE <<Head(cs)>> \o ReplaceFirstChars(Tail(cs), p)

\* s.replace(p, "", 1): the first occurrence of the non-empty p removed.
ReplaceFirst(s, p) == Word(ReplaceFirstChars(Expand(s), Expand(p)))

RECURSIVE RStripSlashChars(_)
RStripSlashChars(cs) ==
    IF Len(cs) > 0 /\ cs[Len(cs)] = "/"
    THEN RStripSlashChars(SubSeq(cs, 1, Len(cs) - 1))
    ELSE cs

\* s.rstrip("/")
RStripSlash(s) == Word(RStripSlashChars(Expand(s)))

\* ------------------------------------------------------------------ errors

\* The absent value (Python None).
None == [type |-> "None"]

\* An exception of a library or builtin type: str(e) is its message.  oid is the
\* identity of the exception object, set where it is raised.
PlainError(type, message) ==
    [type |-> type, code |-> <<>>, message |-> message, details |-> <<>>, oid |-> 0]

\* RegistryError.__init__ as the subclasses call it (details left None).
RegistryErrorOf(type, code, message) ==
    [type |-> type, code |-> code, message |-> message, details |-> <<>>, oid |-> 0]

ConfigurationError(message) ==
    RegistryErrorOf("ConfigurationError", CodeConfiguration, message)

ContractError(message) ==
    RegistryErrorOf("ContractError", CodeContract, message)

NetworkError(message) ==
    RegistryErrorOf("NetworkError", CodeNetwork, message)

StorageError(message) ==
    RegistryErrorOf("StorageError", CodeStorage, message)

\* Mutant of Str: the code of an SDK error is not part of its text.
Str_message_only(e) == e.message

\* str(e): RegistryError.__str__ for the SDK's errors, the message otherwise.
Str(e) ==
    IF e.code = <<>>
    THEN e.message
    ELSE IF e.details # <<>>
         THEN <<"[">> \o e.code \o <<"]", " ">> \o e.message
                  \o <<" ", "-", " ">> \o e.details
         ELSE <<"[">> \o e.code \o <<"]", " ">> \o e.message

\* ------------------------------------------------------------ retry policy

NetworkKeywords == <<KwTimeout, KwConnection, KwNetwork, KwUnavailable, KwRefused>>

RpcKeywords == <<KwRpc, KwNode, KwGateway>>

\* Mutant of is_retryable_error: every error is retryable.
is_retryable_error_always(error) == TRUE

\* Mutant of is_retryable_error: the RPC keywords are not looked for.
is_retryable_error_network_only(error) ==
    LET error_str == Lower(Str(error))
    IN  \E k \in 1..Len(NetworkKeywords) :
            ContainsChars(error_str, Expand(NetworkKeywords[k]))

is_retryable_error(error) ==
    LET error_str == Lower(Str(error))
    IN  IF \E k \in 1..Len(NetworkKeywords) :
              ContainsChars(error_str, Expand(NetworkKeywords[k]))
        THEN TRUE
        ELSE IF \E k \in 1..Len(RpcKeywords) :
                   ContainsChars(error_str, Expand(RpcKeywords[k]))
             THEN TRUE
             ELSE FALSE

DefaultMaxAttempts == 3
DefaultBaseDelay == 1000
DefaultMaxDelay == 30000
DefaultExponentialBase == 2

RetryConfig(max_attempts, base_delay, max_delay, exponential_base, jitter) ==
    [max_attempts |-> max_attempts, base_delay |-> base_delay,
     max_delay |-> max_delay, exponential_base |-> exponential_base,
     jitter |-> jitter]

DEFAULT_RETRY_CONFIG ==
    RetryConfig(DefaultMaxAttempts, DefaultBaseDelay, DefaultMaxDelay,
                DefaultExponentialBase, TRUE)

RECURSIVE Pow(_, _)
Pow(b, n) == IF n <= 0 THEN 1 ELSE b * Pow(b, n - 1)

Min(a, b) == IF a <= b THEN a ELSE b

Max(a, b) == IF a >= b THEN a ELSE b

\* random.uniform(a, b): any float N with a <= N <= b, or b <= N <= a when
\* b < a; here every millisecond of the range (a float stands at the
\* millisecond it rounds to).
Uniform(a, b) == Min(a, b)..Max(a, b)

\* delay * 0.1 at the millisecond it rounds to: delay + u for u in
\* Uniform(-jitter_range, jitter_range) are then the milliseconds that the
\* floats delay + random.uniform(-delay * 0.1, delay * 0.1) round to.
Tenth(delay) == (delay + 5) \div 10

\* Mutant of calculate_delay: the delay is not capped at max_delay.
calculate_delay_uncapped(attempt, cfg) ==
    IF attempt <= 1
    THEN {0}
    ELSE LET delay == cfg.base_delay * Pow(cfg.exponential_base, attempt - 2)
             jitter_range == Tenth(delay)
         IN  IF cfg.jitter
             THEN {Max(0, delay + u) : u \in Uniform(0 - jitter_range, jitter_range)}
             ELSE {Max(0, delay)}

\* Mutant of calculate_delay: the exponent is one too large, the first retry
\* waits base_delay * exponential_base.
calculate_delay_late(attempt, cfg) ==
    IF attempt <= 1
    THEN {0}
    ELSE LET delay == Min(cfg.base_delay * Pow(cfg.exponential_base, attempt - 1),
                          cfg.max_delay)
             jitter_range == Tenth(delay)
         IN  IF cfg.jitter
             THEN {Max(0, delay + u) : u \in Uniform(0 - jitter_range, jitter_range)}
             ELSE {Max(0, delay)}

\* The delays calculate_delay(attempt, cfg) can return: one when jitter is
\* off, every millisecond within a tenth of the capped delay when it is on;
\* none below zero, so a negative capped delay gives 0.
calculate_delay(attempt, cfg) ==
    IF attempt <= 1
    THEN {0}
    ELSE LET delay == Min(cfg.base_delay * Pow(cfg.exponential_base, attempt - 2),
                          cfg.max_delay)
             jitter_range == Tenth(delay)
         IN  IF cfg.jitter
             THEN {Max(0, delay + u) : u \in Uniform(0 - jitter_range, jitter_range)}
             ELSE {Max(0, delay)}

\* ------------------------------------------------------------------- state

VARIABLES
    op,               \* the operation the caller awaits
    config,           \* the RetryConfig the decorator closed over
    private_key,      \* TronClient.private_key is set
    identity_address, \* TronClient.identity_address is set
    validation_address, \* TronClient.validation_address is set
    reputation_address, \* TronClient.reputation_address is set
    request,          \* the arguments of the AgentRegistry method awaited
    args,             \* the arguments of the TronClient method awaited
    gateway_url,      \* IPFSStorage.gateway_url
    uri,              \* the uri argument of fetch / load_request_data
    env_gateway,      \* the environment variable IPFS_GATEWAY_URL
    file_state,       \* the file a file:// uri names: present, missing, denied
    world,            \* what the node and the backend can answer in this run
    pc,               \* where the awaited coroutine is suspended
    attempt,          \* wrapper: the loop variable
    last_error,       \* wrapper: last_error
    outcome,          \* what the caller got: pending, returned or raised
    events,           \* history: executions, sleeps, broadcasts, requests
    gidx,             \* fetch: position of the loop over gateways
    fetch_last_error, \* fetch: last_error
    suspended,        \* the wrapper frame of a second call, not running now
    registration      \* register_agent: where it is, token_uri, tx_id

\* What a call is given: fixed while it runs.
settings ==
    <<op, config, private_key, identity_address, validation_address,
      reputation_address, request, args, gateway_url, uri, env_gateway, file_state,
      world>>

\* What a step of the running call leaves alone: what it is given, the frame
\* of the suspended call and the frame of the method that awaits it.
givens == <<settings, suspended, registration>>

fetchFrame == <<gidx, fetch_last_error>>

vars ==
    <<op, config, private_key, identity_address, validation_address,
      reputation_address, request, args, gateway_url, uri, env_gateway, file_state,
      world, pc, attempt, last_error, outcome, events, gidx, fetch_last_error, suspended,
      registration>>

Pending == [kind |-> "pending", value |-> None, error |-> None]

Returned(v) == [kind |-> "returned", value |-> v, error |-> None]

Raised(e) == [kind |-> "raised", value |-> None, error |-> e]

ExecEvent(r) ==
    [ev |-> "exec", attempt |-> attempt, ok |-> r.ok, value |-> r.value, error |-> r.error]

\* await asyncio.sleep(delay): delays holds every delay calculate_delay can
\* have drawn; the one drawn is kept by no variable of the wrapper.
SleepEvent(ds) == [ev |-> "sleep", delays |-> ds]

\* task.cancel() by the caller.
CancelEvent == [ev |-> "cancel"]

BroadcastEvent(txid) == [ev |-> "broadcast", txid |-> txid]

\* Result of one execution of the wrapped coroutine function.
Ok(v) == [ok |-> TRUE, value |-> v, error |-> None]

Err(e) == [ok |-> FALSE, value |-> None, error |-> e]

Execs == {i \in DOMAIN events : events[i].ev = "exec"}

\* Serial number of the execution in progress; names the objects it creates.
NewId == Cardinality(Execs) + 1

RaisedHere(e) == [e EXCEPT !.oid = NewId]

\* ----------------------------------------------------- retry_async.wrapper

\* Mutant of LoopNext: range(1, config.max_attempts), one attempt short.
LoopNext_exclusive(n) ==
    IF n < config.max_attempts
    THEN /\ attempt' = n
         /\ pc' = "attempting"
         /\ outcome' = outcome
    ELSE /\ attempt' = attempt
         /\ pc' = "done"
         /\ outcome' = IF last_error # None THEN Raised(last_error) ELSE Returned(None)

\* Mutant of LoopNext: the body runs once before the bound is looked at.
LoopNext_at_least_once(n) ==
    IF n <= config.max_attempts \/ n = 1
    THEN /\ attempt' = n
         /\ pc' = "attempting"
         /\ outcome' = outcome
    ELSE /\ attempt' = attempt
         /\ pc' = "done"
         /\ outcome' = IF last_error # None THEN Raised(last_error) ELSE Returned(None)

\* for attempt in range(1, config.max_attempts + 1): the loop takes value n, or
\* is over and the lines after it run.
LoopNext(n) ==
    IF n <= config.max_attempts
    THEN /\ attempt' = n
         /\ pc' = "attempting"
         /\ outcome' = outcome
    ELSE /\ attempt' = attempt
         /\ pc' = "done"
         /\ outcome' = IF last_error # None THEN Raised(last_error) ELSE Returned(None)

\* Mutant of wrapper_return: the result is awaited but not returned, and the
\* loop goes on.
wrapper_return_dropped(v, evs) ==
    /\ LoopNext(attempt + 1)
    /\ events' = events \o evs
    /\ last_error' = last_error

\* return await func(*args, **kwargs)
wrapper_return(v, evs) ==
    /\ pc' = "done"
    /\ outcome' = Returned(v)
    /\ events' = events \o evs
    /\ UNCHANGED <<attempt, last_error>>

\* Mutant of wrapper_except: the error is not classified, every failure is
\* retried until the attempts run out.
wrapper_except_unclassified(e, evs) ==
    /\ last_error' = e
    /\ attempt' = attempt
    /\ IF attempt >= config.max_attempts
       THEN /\ pc' = "done"
            /\ outcome' = Raised(e)
            /\ events' = events \o evs
       ELSE /\ pc' = "sleeping"
            /\ outcome' = outcome
            /\ events' = events \o evs
                              \o <<SleepEvent(calculate_delay(attempt + 1, config))>>

\* Mutant of wrapper_except: the terminal error is raised wrapped in a new
\* ContractError.
wrapper_except_wrapped(e, evs) ==
    /\ last_error' = e
    /\ attempt' = attempt
    /\ IF ~is_retryable_error(e) \/ attempt >= config.max_attempts
       THEN /\ pc' = "done"
            /\ outcome' = Raised(ContractError(Str(e)))
            /\ events' = events \o evs
       ELSE /\ pc' = "sleeping"
            /\ outcome' = outcome
            /\ events' = events \o evs
                              \o <<SleepEvent(calculate_delay(attempt + 1, config))>>

\* except Exception as e: classify, re-raise or back off.
wrapper_except(e, evs) ==
    /\ last_error' = e
    /\ attempt' = attempt
    /\ IF ~is_retryable_error(e)
       THEN /\ pc' = "done"
            /\ outcome' = Raised(e)
            /\ events' = events \o evs
       ELSE IF attempt >= config.max_attempts
            THEN /\ pc' = "done"
                 /\ outcome' = Raised(e)
                 /\ events' = events \o evs
            ELSE /\ pc' = "sleeping"
                 /\ outcome' = outcome
                 /\ events' = events \o evs
                                   \o <<SleepEvent(calculate_delay(attempt + 1, config))>>

\* asyncio.CancelledError(): what a cancelled task gets at its await.
CancelledError == PlainError("CancelledError", <<>>)

\* Mutant of IsException: CancelledError is taken for an Exception.
IsException_any(e) == TRUE

\* isinstance(e, Exception).  CancelledError derives from BaseException
\* (Python 3.8 and later); every other error modelled is an Exception.
IsException(e) == e.type # "CancelledError"

\* An error that except Exception does not catch leaves the wrapper as it is.
wrapper_propagate(e, evs) ==
    /\ pc' = "done"
    /\ outcome' = Raised(e)
    /\ events' = events \o evs
    /\ UNCHANGED <<attempt, last_error>>

\* The wrapper takes the result r of one execution of func.
wrapper_result(r, evs) ==
    IF r.ok
    THEN wrapper_return(r.value, evs \o <<ExecEvent(r)>>)
    ELSE IF IsException(r.error)
         THEN wrapper_except(r.error, evs \o <<ExecEvent(r)>>)
         ELSE wrapper_propagate(r.error, evs \o <<ExecEvent(r)>>)

\* The locals of the running wrapper and what its caller has got.
CurrentFrame ==
    [pc |-> pc, attempt |-> attempt, last_error |-> last_error, outcome |-> outcome,
     events |-> events]

\* No second call.
NoFrame == [pc |-> "none"]

\* register_agent is not running.
NoRegistration == [step |-> "none", token_uri |-> None, tx_id |-> None]

\* A call that has not started.
NewFrame ==
    [pc |-> "start", attempt |-> 0, last_error |-> None, outcome |-> Pending,
     events |-> <<>>]

\* Mutant of Resume: attempt and last_error belong to the decorator, one pair
\* for all calls.
Resume_shared_locals(f) ==
    /\ pc' = f.pc
    /\ outcome' = f.outcome
    /\ events' = f.events
    /\ UNCHANGED <<attempt, last_error>>

\* The event loop resumes the wrapper whose frame is f.
Resume(f) ==
    /\ pc' = f.pc
    /\ attempt' = f.attempt
    /\ last_error' = f.last_error
    /\ outcome' = f.outcome
    /\ events' = f.events

\* The running call is at an await (or not started, or over) and the event
\* loop runs the other call: each wrapper keeps its own locals, the policy the
\* decorator closed over is the same object for both.
Switch ==
    /\ suspended # NoFrame
    /\ Resume(suspended)
    /\ suspended' = CurrentFrame
    /\ UNCHANGED <<settings, fetchFrame, registration>>

\* The caller awaits the decorated function.
Call ==
    /\ pc = "start"
    /\ LoopNext(1)
    /\ UNCHANGED <<givens, fetchFrame, last_error, events>>

\* asyncio.sleep(delay) is over: the loop goes on.
Wake ==
    /\ pc = "sleeping"
    /\ LoopNext(attempt + 1)
    /\ UNCHANGED <<givens, fetchFrame, last_error, events>>

\* The caller cancels the task during asyncio.sleep(delay): the sleep raises
\* CancelledError, outside the try block.
CancelSleep ==
    /\ pc = "sleeping"
    /\ pc' = "done"
    /\ outcome' = Raised(RaisedHere(CancelledError))
    /\ events' = events \o <<CancelEvent>>
    /\ UNCHANGED <<givens, fetchFrame, attempt, last_error>>

\* ------------------------------------------------ an arbitrary wrapped func

FuncErrors ==
    {PlainError("TimeoutError", TxtReadTimeout),
     PlainError("ConnectionError", TxtConnectionRefused),
     PlainError("ValueError", TxtInvalidSentiment),
     ContractError(MsgTransactionFailed \o TxtRevert)}

FuncResults ==
    {Ok([data |-> "result", from |-> NewId])} \cup {Err(RaisedHere(e)) : e \in FuncErrors}

\* The caller cancels the task while func is awaited: the await in func raises
\* CancelledError and func lets it through.
CancelAttempt ==
    /\ op = "func"
    /\ pc = "attempting"
    /\ wrapper_result(Err(RaisedHere(CancelledError)), <<CancelEvent>>)
    /\ UNCHANGED <<givens, fetchFrame>>

\* One execution of func completes, with a result or an exception.
FuncAttempt ==
    /\ op = "func"
    /\ pc = "attempting"
    /\ \E r \in FuncResults : wrapper_result(r, <<>>)
    /\ UNCHANGED <<givens, fetchFrame>>

\* ------------------------------------------------------ argument values

\* A Python value handed to a method or to the ledger.  Every value has the
\* same fields: t the type, n the number of an int, s the characters of a str
\* or of a bytes (a text; for a bytes, of lower-case hex digits, two for a
\* byte), items the entries of a dict or list.
PyInt(n) == [t |-> "int", n |-> n, s |-> <<>>, items |-> <<>>]

PyStr(s) == [t |-> "str", n |-> 0, s |-> s, items |-> <<>>]

\* The bytes whose hex digits are the characters hex.
PyBytes(hex) == [t |-> "bytes", n |-> 0, s |-> Word(hex), items |-> <<>>]

\* None as an argument.
NoValue == [t |-> "none", n |-> 0, s |-> <<>>, items |-> <<>>]

\* b"\x00" * 32
ZeroBytes32 == PyBytes([i \in 1..64 |-> "0"])

\* keccak256_bytes(data): the 32-byte Keccak-256 digest of the bytes data (its
\* characters), kept as the term keccak256(data).  Two digests are equal
\* exactly when their inputs are, and no digest equals a bytes literal (a
\* Keccak-256 collision or an all-zero digest is taken to be out of reach).
keccak256_bytes(data) == [t |-> "digest", n |-> 0, s |-> Word(data), items |-> <<>>]

\* Python truth value of an int, a str, an optional dict.
Truthy(v) ==
    IF v.t = "int" THEN v.n # 0
    ELSE IF v.t = "str" \/ v.t = "bytes" THEN v.s # <<>>
    ELSE IF v.t = "dict" \/ v.t = "list" THEN v.items # <<>>
    ELSE FALSE

\* No method of that layer is awaited.
NoArgs == [method |-> "none"]

\* ------------------------------------------------- TronClient write path

LedgerErrors ==
    {PlainError("TimeoutError", TxtReadTimeout),
     PlainError("ConnectionError", TxtConnectionRefused),
     PlainError("TransactionError", TxtRevert)}

\* What the node does to one _send_transaction: the step that fails and the
\* error it fails with, or nothing.  broadcast_sent: the node took the
\* transaction and the answer was lost.
LedgerEnv ==
    {[fail |-> "none", error |-> None]}
        \cup {[fail |-> s, error |-> x] :
                s \in {"get_contract", "broadcast_unsent"}, x \in LedgerErrors}
        \cup {[fail |-> "broadcast_sent", error |-> PlainError("TimeoutError", TxtReadTimeout)]}


\* ---------------------------------------------------------- the backend

\* What the backend answers to one request: a body that fits, an error status
\* (raise_for_status raises HTTPStatusError), an error of the transport, or a
\* body that does not fit (response.json, result["uri"] or Agent(**..) raises).
ApiResponses ==
    {[kind |-> "ok", code |-> 200, error |-> None],
     [kind |-> "status", code |-> 404,
      error |-> PlainError("HTTPStatusError", TxtNotFound404)],
     [kind |-> "status", code |-> 500,
      error |-> PlainError("HTTPStatusError", TxtServerError500)],
     [kind |-> "transport", code |-> 0,
      error |-> PlainError("ConnectError", TxtAllAttemptsFailed)],
     [kind |-> "misfit", code |-> 200,
      error |-> PlainError("KeyError", TxtKeyUri)]}

\* The URIs the backend names an uploaded document by.
UploadUris == {UriIpfs1, UriIpfs2}

\* The world of a run with no restriction: any answer of the node and of the
\* backend at every request.
AnyWorld == [node |-> LedgerEnv, answers |-> ApiResponses, uris |-> UploadUris]

\* TronClient._get_contract_address (the incident contract is not modelled)
get_contract_address(contract_name) ==
    LET addr == IF SameText(contract_name, NameIdentity) THEN identity_address
                ELSE IF SameText(contract_name, NameValidation) THEN validation_address
                ELSE IF SameText(contract_name, NameReputation) THEN reputation_address
                ELSE FALSE
    IN  IF ~addr
        THEN Err(RaisedHere(ConfigurationError(
                 MsgNoAddressPrefix \o contract_name \o MsgNoAddressSuffix)))
        ELSE Ok(addr)

\* Whether this execution of _send_transaction hands a transaction to the node.
send_broadcasts(contract_name, env) ==
    /\ private_key
    /\ get_contract_address(contract_name).ok
    /\ env.fail \in {"none", "broadcast_sent"}

\* self.tron.get_contract(address)
LookupEvent(contract_name) == [ev |-> "lookup", contract |-> contract_name]

\* func(*params): the contract function and the tuple it is called with.
InvokeEvent(contract_name, function_name, params) ==
    [ev |-> "invoke", contract |-> contract_name, function |-> function_name,
     params |-> params]

\* txn.sign(self.private_key)
SignEvent == [ev |-> "sign"]

\* What one execution of _send_transaction does at the node under env, in order.
send_events(contract_name, function_name, params, env) ==
    IF ~private_key \/ ~get_contract_address(contract_name).ok
    THEN <<>>
    ELSE <<LookupEvent(contract_name)>>
            \o (IF env.fail = "get_contract"
                THEN <<>>
                ELSE <<InvokeEvent(contract_name, function_name, params), SignEvent>>
                        \o (IF send_broadcasts(contract_name, env)
                            THEN <<BroadcastEvent(NewId)>>
                            ELSE <<>>))

\* TronClient._send_transaction: its result under env.
send_transaction(contract_name, function_name, env) ==
    IF ~private_key
    THEN Err(RaisedHere(ConfigurationError(MsgPrivateKeyRequired)))
    ELSE LET address == get_contract_address(contract_name)
         IN  IF ~address.ok
             THEN address
             ELSE IF env.fail = "none"
                  THEN Ok([txid |-> NewId])
                  ELSE Err(RaisedHere(ContractError(
                           MsgTransactionFailed \o contract_name \o <<".">>
                               \o function_name \o <<":", " ">> \o Str(env.error))))

\* One execution of a method that is only a call of _send_transaction.
send_attempt(contract_name, function_name, params) ==
    \E env \in world.node :
        wrapper_result(send_transaction(contract_name, function_name, env),
                       send_events(contract_name, function_name, params, env))

\* TronClient.register_agent: one execution under the retry wrapper.
RegisterAgentAttempt ==
    /\ op = "register_agent"
    /\ pc = "attempting"
    /\ send_attempt(NameIdentity, NameRegister, <<args.token_uri, args.metadata_hash>>)
    /\ UNCHANGED <<givens, fetchFrame>>


\* ------------------------------------------------------- IPFSStorage.fetch

DEFAULT_GATEWAYS == <<GatewayIpfsIo, GatewayPinata, GatewayCloudflare>>

\* IPFSStorage.__init__: self.gateway_url from the gateway_url argument, <<>>
\* for None or "".
storage_gateway_url(arg) == IF arg # <<>> THEN arg ELSE DEFAULT_GATEWAYS[1]

\* Mutant of gateways: the preferred gateway is put first and the defaults are
\* not filtered.
gateways_unfiltered(preferred) == <<preferred>> \o DEFAULT_GATEWAYS

\* fetch: gateways = [self.gateway_url] + [g for g in DEFAULT_GATEWAYS if g != ...]
gateways(preferred) ==
    LET Other(g) == ~SameText(g, preferred)
    IN  <<preferred>> \o SelectSeq(DEFAULT_GATEWAYS, Other)

\* fetch: the CID of the uri argument.
fetch_cid(u) == IF StartsWith(u, SchemeIpfs) THEN ReplaceAll(u, SchemeIpfs) ELSE u

\* url = f"{gateway.rstrip('/')}/{cid}"
gateway_request_url(gateway, cid) == RStripSlash(gateway) \o <<"/">> \o cid

ContactEvent(r) ==
    [ev |-> "contact", index |-> gidx, gateway |-> gateways(gateway_url)[gidx],
     url |-> gateway_request_url(gateways(gateway_url)[gidx], fetch_cid(uri)),
     ok |-> r.ok, value |-> r.value, error |-> r.error]

Contacts == {i \in DOMAIN events : events[i].ev = "contact"}

\* What a GET of url can answer: a JSON body, or an error of client.get,
\* raise_for_status or response.json.
HttpResults(url, serial) ==
    {Ok([body |-> "json", of |-> url, serial |-> serial]),
     Err([PlainError("HTTPStatusError",
                     TxtNotFound404 \o TxtForUrl \o url \o TxtQuote) EXCEPT !.oid = serial]),
     Err([PlainError("ReadTimeout", TxtReadTimeout) EXCEPT !.oid = serial])}

\* raise StorageError(f"All IPFS gateways failed: {last_error}")
all_gateways_failed(last) == StorageError(MsgAllGatewaysFailed \o Str(last))

\* fetch starts: the first gateway is asked.
FetchBegin ==
    /\ op = "fetch"
    /\ pc = "attempting"
    /\ pc' = "fetching"
    /\ gidx' = 1
    /\ fetch_last_error' = None
    /\ UNCHANGED <<givens, attempt, last_error, outcome, events>>

\* Mutant of FetchResponse: last_error keeps the first gateway's error.
FetchResponse_first_error ==
    /\ op = "fetch"
    /\ pc = "fetching"
    /\ \E r \in HttpResults(gateway_request_url(gateways(gateway_url)[gidx], fetch_cid(uri)),
                            Cardinality(Contacts) + 1) :
          IF r.ok
          THEN /\ wrapper_result(Ok(r.value), <<ContactEvent(r)>>)
               /\ UNCHANGED fetchFrame
          ELSE LET kept == IF fetch_last_error = None THEN r.error ELSE fetch_last_error
               IN  IF gidx < Len(gateways(gateway_url))
                   THEN /\ fetch_last_error' = kept
                        /\ gidx' = gidx + 1
                        /\ events' = events \o <<ContactEvent(r)>>
                        /\ UNCHANGED <<pc, attempt, last_error, outcome>>
                   ELSE /\ fetch_last_error' = kept
                        /\ gidx' = gidx
                        /\ wrapper_result(Err(RaisedHere(all_gateways_failed(kept))),
                                          <<ContactEvent(r)>>)
    /\ UNCHANGED givens

\* The gateway asked answers: fetch returns its JSON, or notes the error and
\* asks the next gateway, or raises when the list is over.
FetchResponse ==
    /\ op = "fetch"
    /\ pc = "fetching"
    /\ \E r \in HttpResults(gateway_request_url(gateways(gateway_url)[gidx], fetch_cid(uri)),
                            Cardinality(Contacts) + 1) :
          IF r.ok
          THEN /\ wrapper_result(Ok(r.value), <<ContactEvent(r)>>)
               /\ UNCHANGED fetchFrame
          ELSE IF gidx < Len(gateways(gateway_url))
               THEN /\ fetch_last_error' = r.error
                    /\ gidx' = gidx + 1
                    /\ events' = events \o <<ContactEvent(r)>>
                    /\ UNCHANGED <<pc, attempt, last_error, outcome>>
               ELSE /\ fetch_last_error' = r.error
                    /\ gidx' = gidx
                    /\ wrapper_result(Err(RaisedHere(all_gateways_failed(r.error))),
                                      <<ContactEvent(r)>>)
    /\ UNCHANGED givens

\* ------------------------------------------------------- load_request_data

\* os.getenv("IPFS_GATEWAY_URL", default)
getenv_gateway(default) == IF env_gateway.set THEN env_gateway.value ELSE default

\* Mutant of load_target: a file:// uri is fetched through the gateway like an
\* ipfs:// uri.
load_target_file_via_gateway(request_uri) ==
    IF StartsWith(request_uri, SchemeFile)
    THEN [kind |-> "ipfs",
          at |-> RStripSlash(getenv_gateway(GatewayIpfsIo)) \o <<"/">>
                     \o ReplaceFirst(request_uri, SchemeFile)]
    ELSE IF StartsWith(request_uri, SchemeIpfs)
         THEN [kind |-> "ipfs",
               at |-> RStripSlash(getenv_gateway(GatewayIpfsIo)) \o <<"/">>
                          \o ReplaceFirst(request_uri, SchemeIpfs)]
         ELSE IF StartsWith(request_uri, SchemeHttp) \/ StartsWith(request_uri, SchemeHttps)
              THEN [kind |-> "http", at |-> request_uri]
              ELSE [kind |-> "literal", at |-> request_uri]

\* Mutant of load_target: a uri of no known scheme is taken for a path and
\* opened.
load_target_literal_as_path(request_uri) ==
    IF StartsWith(request_uri, SchemeFile)
    THEN [kind |-> "file", at |-> ReplaceFirst(request_uri, SchemeFile)]
    ELSE IF StartsWith(request_uri, SchemeIpfs)
         THEN [kind |-> "ipfs",
               at |-> RStripSlash(getenv_gateway(GatewayIpfsIo)) \o <<"/">>
                          \o ReplaceFirst(request_uri, SchemeIpfs)]
         ELSE IF StartsWith(request_uri, SchemeHttp) \/ StartsWith(request_uri, SchemeHttps)
              THEN [kind |-> "http", at |-> request_uri]
              ELSE [kind |-> "file", at |-> request_uri]

\* load_request_data: the branch taken and the path or url it goes to.
load_target(request_uri) ==
    IF StartsWith(request_uri, SchemeFile)
    THEN [kind |-> "file", at |-> ReplaceFirst(request_uri, SchemeFile)]
    ELSE IF StartsWith(request_uri, SchemeIpfs)
         THEN [kind |-> "ipfs",
               at |-> RStripSlash(getenv_gateway(GatewayIpfsIo)) \o <<"/">>
                          \o ReplaceFirst(request_uri, SchemeIpfs)]
         ELSE IF StartsWith(request_uri, SchemeHttp) \/ StartsWith(request_uri, SchemeHttps)
              THEN [kind |-> "http", at |-> request_uri]
              ELSE [kind |-> "literal", at |-> request_uri]

OpenEvent(path) == [ev |-> "open", path |-> path]

RequestEvent(url, r) ==
    [ev |-> "request", url |-> url, ok |-> r.ok, value |-> r.value, error |-> r.error]

Requests == {i \in DOMAIN events : events[i].ev = "request"}

\* open(path) and f.read()
read_file(path) ==
    IF file_state = "present"
    THEN Ok([body |-> "text", of |-> path, serial |-> 1])
    ELSE IF file_state = "missing"
         THEN Err([PlainError("FileNotFoundError", MsgFileNotFound \o path) EXCEPT !.oid = 1])
         ELSE Err([PlainError("PermissionError",
                              TxtPermissionDenied \o path \o TxtQuote) EXCEPT !.oid = 1])

\* load_request_data is awaited: the file is read, the literal returned, or the
\* GET sent.
LoadStart ==
    /\ op = "load"
    /\ pc = "start"
    /\ LET t == load_target(uri)
       IN  IF t.kind = "file"
           THEN /\ pc' = "done"
                /\ events' = events \o <<OpenEvent(t.at)>>
                /\ outcome' = IF read_file(t.at).ok
                              THEN Returned(read_file(t.at).value)
                              ELSE Raised(read_file(t.at).error)
           ELSE IF t.kind = "literal"
                THEN /\ pc' = "done"
                     /\ events' = events
                     /\ outcome' = Returned(uri)
                ELSE /\ pc' = "requesting"
                     /\ events' = events
                     /\ outcome' = outcome
    /\ UNCHANGED <<givens, fetchFrame, attempt, last_error>>

\* The GET of load_request_data answers: the text is returned, or the error is
\* raised as a NetworkError.
LoadResponse ==
    /\ op = "load"
    /\ pc = "requesting"
    /\ LET t == load_target(uri)
       IN  \E r \in HttpResults(t.at, Cardinality(Requests) + 1) :
              /\ pc' = "done"
              /\ events' = events \o <<RequestEvent(t.at, r)>>
              /\ outcome' =
                    IF r.ok
                    THEN Returned(r.value)
                    ELSE Raised([NetworkError(
                                    (IF t.kind = "ipfs" THEN MsgFetchIpfsFailed
                                     ELSE MsgFetchUrlFailed) \o Str(r.error))
                                 EXCEPT !.oid = Cardinality(Requests) + 2])
    /\ UNCHANGED <<givens, fetchFrame, attempt, last_error>>

\* ---------------------------------------------------------- specifications

RetryConfigs ==
    {RetryConfig(n, DefaultBaseDelay, DefaultMaxDelay, DefaultExponentialBase, j) :
        n \in (0 - 1)..MaxAttempts, j \in BOOLEAN}

NoEnv == [set |-> FALSE, value |-> <<>>]

InitCall ==
    /\ pc = "start"
    /\ attempt = 0
    /\ last_error = None
    /\ outcome = Pending
    /\ events = <<>>
    /\ gidx = 0
    /\ fetch_last_error = None

InitRetry ==
    /\ InitCall
    /\ op = "func"
    /\ config \in RetryConfigs
    /\ private_key = FALSE
    /\ identity_address = FALSE
    /\ validation_address = FALSE
    /\ reputation_address = FALSE
    /\ request = NoArgs
    /\ args = NoArgs
    /\ gateway_url = storage_gateway_url(<<>>)
    /\ uri = <<>>
    /\ env_gateway = NoEnv
    /\ file_state = "missing"
    /\ suspended = NoFrame
    /\ world = AnyWorld
    /\ registration = NoRegistration

NextRetry == Call \/ FuncAttempt \/ Wake

SpecRetry == InitRetry /\ [][NextRetry]_vars

\* Policies with base_delay >= 0, max_delay >= base_delay and
\* exponential_base > 1, one attempt more than MaxAttempts allowed: a base of
\* zero, a base of 0.016 s (its tenth is no whole number of milliseconds), a
\* cap equal to the base, a cap reached at the second or third sleep, the
\* default cap.
BackoffConfigs ==
    {RetryConfig(MaxAttempts + 1, b, m, x, j) :
        b \in {0, 16, DefaultBaseDelay, 2 * DefaultBaseDelay},
        m \in {2 * DefaultBaseDelay, 3 * DefaultBaseDelay, DefaultMaxDelay},
        x \in {DefaultExponentialBase, DefaultExponentialBase + 1},
        j \in BOOLEAN}

InitBackoff ==
    /\ InitCall
    /\ op = "func"
    /\ config \in BackoffConfigs
    /\ private_key = FALSE
    /\ identity_address = FALSE
    /\ validation_address = FALSE
    /\ reputation_address = FALSE
    /\ request = NoArgs
    /\ args = NoArgs
    /\ gateway_url = storage_gateway_url(<<>>)
    /\ uri = <<>>
    /\ env_gateway = NoEnv
    /\ file_state = "missing"
    /\ suspended = NoFrame
    /\ world = AnyWorld
    /\ registration = NoRegistration

SpecBackoff == InitBackoff /\ [][NextRetry]_vars

\* The retried call with a caller that may cancel it.
NextCancel == Call \/ FuncAttempt \/ Wake \/ CancelAttempt \/ CancelSleep

SpecCancel == InitRetry /\ [][NextCancel]_vars

\* register_agent(token_uri, metadata_hash) as AgentRegistry.register_agent
\* calls it.
RegisterAgentArgs ==
    [method |-> "register_agent", token_uri |-> PyStr(UriIpfs1),
     metadata_hash |-> keccak256_bytes(Expand(UriInline))]

InitLedger ==
    /\ InitCall
    /\ op = "register_agent"
    /\ config = DEFAULT_RETRY_CONFIG
    /\ private_key \in BOOLEAN
    /\ identity_address \in BOOLEAN
    /\ validation_address = FALSE
    /\ reputation_address = FALSE
    /\ request = NoArgs
    /\ args = RegisterAgentArgs
    /\ gateway_url = storage_gateway_url(<<>>)
    /\ uri = <<>>
    /\ env_gateway = NoEnv
    /\ file_state = "missing"
    /\ suspended = NoFrame
    /\ world = AnyWorld
    /\ registration = NoRegistration

NextLedger == Call \/ RegisterAgentAttempt \/ Wake

SpecLedger == InitLedger /\ [][NextLedger]_vars

\* The IPFSStorage instances and the uri arguments of fetch: the default
\* gateway, a default gateway that is not the first, a gateway of the caller.
FetchCalls ==
    {<<storage_gateway_url(<<>>), UriIpfs1>>,
     <<storage_gateway_url(<<>>), CidBare>>,
     <<storage_gateway_url(GatewayPinata), CidBare>>,
     <<storage_gateway_url(GatewayCustom), UriIpfs1>>}

InitFetch ==
    /\ InitCall
    /\ op = "fetch"
    /\ config = DEFAULT_RETRY_CONFIG
    /\ private_key = FALSE
    /\ identity_address = FALSE
    /\ validation_address = FALSE
    /\ reputation_address = FALSE
    /\ request = NoArgs
    /\ args = NoArgs
    /\ \E c \in FetchCalls : gateway_url = c[1] /\ uri = c[2]
    /\ env_gateway = NoEnv
    /\ file_state = "missing"
    /\ suspended = NoFrame
    /\ world = AnyWorld
    /\ registration = NoRegistration

NextFetch == Call \/ FetchBegin \/ FetchResponse \/ Wake

SpecFetch == InitFetch /\ [][NextFetch]_vars

LoadUris ==
    {UriIpfs1, UriIpfs2, UriFile, UriHttp, UriHttps, UriInline, UriUpper,
     UriEmbedded, UriFtp, <<>>}

InitLoad ==
    /\ InitCall
    /\ op = "load"
    /\ config = DEFAULT_RETRY_CONFIG
    /\ private_key = FALSE
    /\ identity_address = FALSE
    /\ validation_address = FALSE
    /\ reputation_address = FALSE
    /\ request = NoArgs
    /\ args = NoArgs
    /\ gateway_url = storage_gateway_url(<<>>)
    /\ uri \in LoadUris
    /\ env_gateway \in {NoEnv, [set |-> TRUE, value |-> GatewayCustom],
                        [set |-> TRUE, value |-> GatewayPinata]}
    /\ file_state \in {"present", "missing", "denied"}
    /\ suspended = NoFrame
    /\ world = AnyWorld
    /\ registration = NoRegistration

NextLoad == LoadStart \/ LoadResponse

SpecLoad == InitLoad /\ [][NextLoad]_vars
\* --------------------------------------------- TronClient: overload choice

\* SENTIMENT_TO_INT.get(sentiment.lower())
sentiment_to_int(sentiment) ==
    LET key == Lower(sentiment)
    IN  IF key = Expand(SentimentNeutral) THEN [found |-> TRUE, code |-> 0]
        ELSE IF key = Expand(SentimentPositive) THEN [found |-> TRUE, code |-> 1]
        ELSE IF key = Expand(SentimentNegative) THEN [found |-> TRUE, code |-> 2]
        ELSE [found |-> FALSE, code |-> 0]

\* raise ContractError(f"Invalid sentiment: {sentiment}. Must be ...")
invalid_sentiment(sentiment) ==
    ContractError(MsgInvalidSentiment \o sentiment \o MsgMustBe)

\* Mutant of give_feedback_has_erc8004_fields: the hash is not looked at.
give_feedback_has_erc8004_fields_no_hash(a) ==
    \/ Truthy(a.value)
    \/ Truthy(a.value_decimals)
    \/ Truthy(a.tag1)
    \/ Truthy(a.tag2)
    \/ Truthy(a.endpoint)
    \/ Truthy(a.feedback_uri)

\* give_feedback: has_erc8004_fields
give_feedback_has_erc8004_fields(a) ==
    \/ Truthy(a.value)
    \/ Truthy(a.value_decimals)
    \/ Truthy(a.tag1)
    \/ Truthy(a.tag2)
    \/ Truthy(a.endpoint)
    \/ Truthy(a.feedback_uri)
    \/ a.feedback_hash # ZeroBytes32

\* give_feedback: the tuple of the full overload.
give_feedback_extended(a) ==
    LET sentiment_int == PyInt(sentiment_to_int(a.sentiment.s).code)
    IN  <<a.agent_id, a.feedback_text, sentiment_int, a.value, a.value_decimals,
          a.tag1, a.tag2, a.endpoint, a.feedback_uri, a.feedback_hash>>

\* give_feedback: the tuple of the legacy overload.
give_feedback_legacy(a) ==
    LET sentiment_int == PyInt(sentiment_to_int(a.sentiment.s).code)
    IN  <<a.agent_id, a.feedback_text, sentiment_int>>

\* Mutant of give_feedback_params: after a failed attempt the legacy tuple is
\* handed over.
give_feedback_params_after_failure(a) ==
    IF give_feedback_has_erc8004_fields(a) /\ last_error = None
    THEN give_feedback_extended(a)
    ELSE give_feedback_legacy(a)

\* give_feedback: the tuple handed to _send_transaction.
give_feedback_params(a) ==
    IF give_feedback_has_erc8004_fields(a)
    THEN give_feedback_extended(a)
    ELSE give_feedback_legacy(a)

\* TronClient.give_feedback: one execution under the retry wrapper.
GiveFeedbackAttempt ==
    /\ op = "give_feedback"
    /\ pc = "attempting"
    /\ IF ~sentiment_to_int(args.sentiment.s).found
       THEN wrapper_result(Err(RaisedHere(invalid_sentiment(args.sentiment.s))), <<>>)
       ELSE send_attempt(NameReputation, FnGiveFeedback, give_feedback_params(args))
    /\ UNCHANGED <<givens, fetchFrame>>

\* append_response: has_erc8004_fields
append_response_has_erc8004_fields(a) ==
    \/ Truthy(a.client_address)
    \/ Truthy(a.response_uri)
    \/ a.response_hash # ZeroBytes32

\* Mutant of append_response_extended: the client address comes after the
\* legacy fields.
append_response_extended_trailing(a) ==
    <<a.agent_id, a.feedback_index, a.response_text, a.client_address,
      a.response_uri, a.response_hash>>

\* append_response: the tuple of the full overload.
append_response_extended(a) ==
    <<a.agent_id, a.client_address, a.feedback_index, a.response_text,
      a.response_uri, a.response_hash>>

\* append_response: the tuple of the legacy overload.
append_response_legacy(a) == <<a.agent_id, a.feedback_index, a.response_text>>

\* append_response: the tuple handed to _send_transaction.
append_response_params(a) ==
    IF append_response_has_erc8004_fields(a)
    THEN append_response_extended(a)
    ELSE append_response_legacy(a)

\* TronClient.append_response: one execution under the retry wrapper.
AppendResponseAttempt ==
    /\ op = "append_response"
    /\ pc = "attempting"
    /\ send_attempt(NameReputation, FnAppendResponse, append_response_params(args))
    /\ UNCHANGED <<givens, fetchFrame>>

\* The default of response in complete_validation.
CompleteResponseDefault == 100

\* Mutant of complete_validation_params: the extended tuple only when a tag is
\* given.
complete_validation_params_tag_only(a) ==
    IF Truthy(a.tag)
    THEN <<a.request_id, a.result_uri, a.result_hash, a.tag, a.response>>
    ELSE <<a.request_id, a.result_uri, a.result_hash>>

\* complete_validation: the tuple of the overload with tag and response.
complete_validation_extended(a) ==
    <<a.request_id, a.result_uri, a.result_hash, a.tag, a.response>>

\* complete_validation: the tuple of the legacy overload.
complete_validation_legacy(a) == <<a.request_id, a.result_uri, a.result_hash>>

\* complete_validation: the tuple handed to _send_transaction.
complete_validation_params(a) ==
    IF Truthy(a.tag) \/ a.response.n # CompleteResponseDefault
    THEN complete_validation_extended(a)
    ELSE complete_validation_legacy(a)

\* The default of response in reject_validation.
RejectResponseDefault == 0

\* reject_validation: the tuple of the overload with tag and response.
reject_validation_extended(a) ==
    <<a.request_id, a.result_uri, a.reason_hash, a.tag, a.response>>

\* reject_validation: the tuple of the legacy overload.
reject_validation_legacy(a) == <<a.request_id, a.result_uri, a.reason_hash>>

\* reject_validation: the tuple handed to _send_transaction.
reject_validation_params(a) ==
    IF Truthy(a.tag) \/ a.response.n # RejectResponseDefault
    THEN reject_validation_extended(a)
    ELSE reject_validation_legacy(a)

\* TronClient.validation_request: one execution under the retry wrapper.
ValidationRequestAttempt ==
    /\ op = "validation_request"
    /\ pc = "attempting"
    /\ send_attempt(NameValidation, FnValidationRequest,
                    <<args.agent_id, args.validator, args.request_uri,
                      args.request_data_hash>>)
    /\ UNCHANGED <<givens, fetchFrame>>

\* TronClient.complete_validation: one execution under the retry wrapper.
CompleteValidationAttempt ==
    /\ op = "complete_validation"
    /\ pc = "attempting"
    /\ send_attempt(NameValidation, FnCompleteValidation,
                    complete_validation_params(args))
    /\ UNCHANGED <<givens, fetchFrame>>

\* TronClient.reject_validation: one execution under the retry wrapper.
RejectValidationAttempt ==
    /\ op = "reject_validation"
    /\ pc = "attempting"
    /\ send_attempt(NameValidation, FnRejectValidation,
                    reject_validation_params(args))
    /\ UNCHANGED <<givens, fetchFrame>>

\* ------------------------------------------------ calls of the TronClient

\* A 32-byte hash that is not the zero hash, bytes of 31 zero bytes, b"".
OneBytes32 == PyBytes([i \in 1..64 |-> IF i = 64 THEN "1" ELSE "0"])

ZeroBytes31 == PyBytes([i \in 1..62 |-> "0"])

EmptyBytes == PyBytes(<<>>)

\* give_feedback(7, "great", "positive") with every optional argument at its
\* default.
GiveFeedbackDefaults ==
    [method |-> "give_feedback", agent_id |-> PyInt(7), feedback_text |-> PyStr(TxtGreat),
     sentiment |-> PyStr(SentimentPositive), value |-> PyInt(0),
     value_decimals |-> PyInt(0), tag1 |-> PyStr(<<>>), tag2 |-> PyStr(<<>>),
     endpoint |-> PyStr(<<>>), feedback_uri |-> PyStr(<<>>),
     feedback_hash |-> ZeroBytes32]

\* Sentiments the table knows, in several letter cases, and sentiments it does
\* not know.
Sentiments ==
    {SentimentPositive, SentimentNeutral, SentimentNegative, TxtNeutralCapital,
     TxtNegativeUpper, TxtBad, TxtVeryPositive, KwTimeout, TxtNodeDown, <<>>}

\* Calls of give_feedback: the defaults, one optional argument given, all given,
\* each sentiment.
GiveFeedbackCalls ==
    {GiveFeedbackDefaults,
     [GiveFeedbackDefaults EXCEPT !.value = PyInt(5)],
     [GiveFeedbackDefaults EXCEPT !.value = PyInt(0 - 1)],
     [GiveFeedbackDefaults EXCEPT !.value_decimals = PyInt(2)],
     [GiveFeedbackDefaults EXCEPT !.tag1 = PyStr(TxtTag)],
     [GiveFeedbackDefaults EXCEPT !.tag2 = PyStr(TxtTag)],
     [GiveFeedbackDefaults EXCEPT !.endpoint = PyStr(TxtEndpoint)],
     [GiveFeedbackDefaults EXCEPT !.feedback_uri = PyStr(UriIpfs1)],
     [GiveFeedbackDefaults EXCEPT !.feedback_hash = OneBytes32],
     [GiveFeedbackDefaults EXCEPT !.feedback_hash = ZeroBytes31],
     [GiveFeedbackDefaults EXCEPT !.feedback_hash = keccak256_bytes(Expand(UriInline))],
     [GiveFeedbackDefaults EXCEPT !.value = PyInt(5), !.value_decimals = PyInt(2),
                                  !.tag1 = PyStr(TxtTag), !.tag2 = PyStr(TxtBad),
                                  !.endpoint = PyStr(TxtEndpoint),
                                  !.feedback_uri = PyStr(UriIpfs1),
                                  !.feedback_hash = OneBytes32]}
        \cup {[GiveFeedbackDefaults EXCEPT !.sentiment = PyStr(s)] : s \in Sentiments}
        \cup {[GiveFeedbackDefaults EXCEPT !.sentiment = PyStr(s), !.tag1 = PyStr(TxtTag)] :
                s \in {TxtNegativeUpper, TxtBad}}

\* Calls of append_response: every choice of given and default optional
\* arguments.
AppendResponseCalls ==
    {[method |-> "append_response", agent_id |-> PyInt(7), feedback_index |-> PyInt(3),
      response_text |-> PyStr(TxtThanks), client_address |-> PyStr(c),
      response_uri |-> PyStr(u), response_hash |-> h] :
        c \in {<<>>, TxtClient}, u \in {<<>>, UriIpfs1},
        h \in {ZeroBytes32, EmptyBytes}}

Responses == {0, 50, 100}

\* Calls of complete_validation(request_id, result_uri, result_hash, tag,
\* response).
CompleteValidationCalls ==
    {[method |-> "complete_validation", request_id |-> PyBytes(Expand(TxtRequestIdBare)),
      result_uri |-> PyStr(UriIpfs1), result_hash |-> h, tag |-> PyStr(t),
      response |-> PyInt(r)] :
        h \in {OneBytes32}, t \in {<<>>, TxtTag}, r \in Responses}

\* Calls of reject_validation(request_id, result_uri, reason_hash, tag,
\* response).
RejectValidationCalls ==
    {[method |-> "reject_validation", request_id |-> PyBytes(Expand(TxtRequestIdBare)),
      result_uri |-> PyStr(u), reason_hash |-> ZeroBytes32, tag |-> PyStr(t),
      response |-> PyInt(r)] :
        u \in {<<>>}, t \in {<<>>, TxtTag}, r \in Responses}

\* A call of validation_request(agent_id, validator, request_uri,
\* request_data_hash).
ValidationRequestArgs ==
    [method |-> "validation_request", agent_id |-> PyInt(7),
     validator |-> PyStr(TxtValidator), request_uri |-> PyStr(UriIpfs1),
     request_data_hash |-> ZeroBytes32]
\* ------------------------------------------------- documents, utils/crypto

\* A JSON document is a value of type dict: items holds its entries
\* [k |-> key, v |-> value] in insertion order, the keys (strs, as characters)
\* distinct.  A list holds its elements the same way, the keys empty.  A bool
\* has n 1 or 0.
PyDict(items) == [t |-> "dict", n |-> 0, s |-> <<>>, items |-> items]

PyList(items) == [t |-> "list", n |-> 0, s |-> <<>>, items |-> items]

PyBool(b) == [t |-> "bool", n |-> IF b THEN 1 ELSE 0, s |-> <<>>, items |-> <<>>]

Entry(k, v) == [k |-> k, v |-> v]

Element(v) == [k |-> <<>>, v |-> v]

\* The printable ASCII characters in code point order, from 32, the grave
\* accent (96) left out.
Ascii ==
    <<" ", "!", "\"", "#", "$", "%", "&", "'", "(", ")", "*", "+", ",", "-", ".", "/",
      "0", "1", "2", "3", "4", "5", "6", "7", "8", "9", ":", ";", "<", "=", ">", "?",
      "@", "A", "B", "C", "D", "E", "F", "G", "H", "I", "J", "K", "L", "M", "N", "O",
      "P", "Q", "R", "S", "T", "U", "V", "W", "X", "Y", "Z", "[", "\\", "]", "^", "_",
      "a", "b", "c", "d", "e", "f", "g", "h", "i", "j", "k", "l", "m", "n", "o",
      "p", "q", "r", "s", "t", "u", "v", "w", "x", "y", "z", "{", "|", "}", "~">>

\* ord(c)
Ord(c) ==
    LET i == CHOOSE j \in 1..Len(Ascii) : Ascii[j] = c
    IN  IF i <= 64 THEN 31 + i ELSE 32 + i

\* a < b on strs: by code point, a proper prefix first.
RECURSIVE LessChars(_, _)
LessChars(a, b) ==
    IF b = <<>> THEN FALSE
    ELSE IF a = <<>> THEN TRUE
    ELSE IF Head(a) = Head(b) THEN LessChars(Tail(a), Tail(b))
    ELSE Ord(Head(a)) < Ord(Head(b))

\* sorted(dct.items()): the entries by ascending key.
RECURSIVE SortedItems(_)
SortedItems(items) ==
    IF items = <<>>
    THEN <<>>
    ELSE LET least == CHOOSE i \in 1..Len(items) :
                          \A j \in 1..Len(items) : ~LessChars(items[j].k, items[i].k)
         IN  <<items[least]>>
                 \o SortedItems(SubSeq(items, 1, least - 1)
                                    \o SubSeq(items, least + 1, Len(items)))

Digits == <<"0", "1", "2", "3", "4", "5", "6", "7", "8", "9">>

\* str(n) of an int.
RECURSIVE DecimalChars(_)
DecimalChars(n) ==
    IF n < 0 THEN <<"-">> \o DecimalChars(0 - n)
    ELSE IF n < 10 THEN <<Digits[n + 1]>>
    ELSE DecimalChars(n \div 10) \o <<Digits[(n % 10) + 1]>>

\* The JSON string of the characters cs: quotes around, " and \ escaped
\* (ensure_ascii=False; no control character is in the alphabet).
RECURSIVE EscapedChars(_)
EscapedChars(cs) ==
    IF cs = <<>> THEN <<>>
    ELSE (IF Head(cs) = "\"" \/ Head(cs) = "\\" THEN <<"\\", Head(cs)>> ELSE <<Head(cs)>>)
             \o EscapedChars(Tail(cs))

JsonString(cs) == <<"\"">> \o EscapedChars(cs) \o <<"\"">>

\* json.dumps(v, separators=(",", ":"), sort_keys=sorted, ensure_ascii=False):
\* the characters written.
RECURSIVE JsonDumps(_, _)
RECURSIVE JsonJoin(_, _, _)
JsonJoin(items, keyed, sorted) ==
    IF items = <<>> THEN <<>>
    ELSE (IF keyed THEN JsonString(Head(items).k) \o <<":">> ELSE <<>>)
             \o JsonDumps(Head(items).v, sorted)
             \o (IF Len(items) > 1 THEN <<",">> ELSE <<>>)
             \o JsonJoin(Tail(items), keyed, sorted)

JsonDumps(v, sorted) ==
    IF v.t = "dict"
    THEN <<"{">> \o JsonJoin(IF sorted THEN SortedItems(v.items) ELSE v.items, TRUE, sorted)
             \o <<"}">>
    ELSE IF v.t = "list" THEN <<"[">> \o JsonJoin(v.items, FALSE, sorted) \o <<"]">>
    ELSE IF v.t = "str" THEN JsonString(Expand(v.s))
    ELSE IF v.t = "int" THEN DecimalChars(v.n)
    ELSE IF v.t = "bool" THEN (IF v.n = 1 THEN Expand(JsonTrue) ELSE Expand(JsonFalse))
    ELSE Expand(JsonNull)

\* Mutant of canonical_json: the keys are written in insertion order.
canonical_json_unsorted(data) == JsonDumps(data, FALSE)

\* canonical_json(data): the bytes of the dump with sorted keys (every
\* character of the alphabet is one byte of UTF-8).
canonical_json(data) == JsonDumps(data, TRUE)


\* keccak256_hex(data): "0x" and the 64 hex digits of the Keccak-256 digest of
\* the bytes data, kept as the term keccak256(data) like keccak256_bytes.
keccak256_hex(data) == [t |-> "hexdigest", n |-> 0, s |-> Word(data), items |-> <<>>]

\* compute_metadata_hash(metadata)
compute_metadata_hash(metadata) ==
    LET canonical == canonical_json(metadata)
    IN  keccak256_hex(canonical)

\* compute_metadata_hash(request.metadata), called directly.
ComputeMetadataHash ==
    /\ pc = "hash"
    /\ request.method = "compute_metadata_hash"
    /\ pc' = "done"
    /\ outcome' = Returned(compute_metadata_hash(request.metadata))
    /\ UNCHANGED <<attempt, last_error, events, gidx, fetch_last_error, givens>>

\* The documents holding the entries of v in any insertion order, at every
\* nesting level; the elements of a list keep their places.
RECURSIVE Reorderings(_)
Reorderings(v) ==
    IF v.items = <<>>
    THEN {v}
    ELSE LET n == Len(v.items)
             values == {c \in [1..n -> UNION {Reorderings(v.items[i].v) : i \in 1..n}] :
                           \A i \in 1..n : c[i] \in Reorderings(v.items[i].v)}
             orders == IF v.t = "dict"
                       THEN Permutations(1..n)
                       ELSE {[i \in 1..n |-> i]}
         IN  {[v EXCEPT !.items = [i \in 1..n |-> [k |-> v.items[p[i]].k, v |-> c[p[i]]]]] :
                  p \in orders, c \in values}

\* Keys of mixed case, of a common prefix, of digits, empty and escaped;
\* values of every JSON type; dicts inside dicts and lists.
DocMixedCase ==
    PyDict(<<Entry(<<"b">>, PyInt(2)),
             Entry(<<"a">>, PyDict(<<Entry(<<"d">>, PyStr(TxtTag)),
                                     Entry(<<"c">>, PyList(<<Element(PyInt(1))>>))>>)),
             Entry(<<"B">>, PyBool(TRUE))>>)

DocPrefixKeys ==
    PyDict(<<Entry(<<"a", "b">>,
                   PyList(<<Element(PyDict(<<Entry(<<"z">>, NoValue),
                                             Entry(<<"y">>, PyInt(0 - 10))>>))>>)),
             Entry(<<"a">>, PyStr(TxtQuoted)),
             Entry(<<"a", "B">>, PyBool(FALSE))>>)

DocDigitKeys ==
    PyDict(<<Entry(<<"9">>, PyInt(1)),
             Entry(<<"1", "0">>, PyDict(<<Entry(<<" ">>, PyInt(1)),
                                          Entry(<<>>, PyInt(0))>>)),
             Entry(<<"\\">>, PyInt(3)),
             Entry(<<>>, PyStr(<<>>))>>)

Documents ==
    UNION {Reorderings(d) :
               d \in {PyDict(<<>>), DocMixedCase, DocPrefixKeys, DocDigitKeys}}
\* ----------------------------------------------------------- AgentRegistry

HexDigits ==
    <<"0", "1", "2", "3", "4", "5", "6", "7", "8", "9", "a", "b", "c", "d", "e", "f",
      "A", "B", "C", "D", "E", "F">>

IsHexDigit(c) == \E i \in 1..Len(HexDigits) : HexDigits[i] = c

\* bytes.fromhex on the characters cs, pos characters in: the hex digits of the
\* bytes, or the position of the character that is not the digit expected.
\* Spaces between bytes are skipped.
RECURSIVE FromHexChars(_, _)
FromHexChars(cs, pos) ==
    IF cs = <<>> THEN [ok |-> TRUE, hex |-> <<>>, position |-> pos]
    ELSE IF Head(cs) = " " THEN FromHexChars(Tail(cs), pos + 1)
    ELSE IF ~IsHexDigit(cs[1]) THEN [ok |-> FALSE, hex |-> <<>>, position |-> pos]
    ELSE IF Len(cs) < 2 \/ ~IsHexDigit(cs[2])
         THEN [ok |-> FALSE, hex |-> <<>>, position |-> pos + 1]
    ELSE LET rest == FromHexChars(SubSeq(cs, 3, Len(cs)), pos + 2)
         IN  IF rest.ok
             THEN [rest EXCEPT !.hex = <<LowerChar(cs[1]), LowerChar(cs[2])>> \o rest.hex]
             ELSE rest

\* bytes.fromhex(request_id.replace("0x", ""))
request_id_bytes(request_id) ==
    LET r == FromHexChars(Expand(ReplaceAll(request_id, HexPrefix)), 0)
    IN  IF r.ok
        THEN Ok(PyBytes(r.hex))
        ELSE Err([PlainError("ValueError", MsgFromHex \o DecimalChars(r.position))
                  EXCEPT !.oid = 1])

\* submit_validation: data_hash; complete_validation: result_hash;
\* reject_validation: reason_hash.
data_hash(data) ==
    IF Truthy(data) THEN keccak256_bytes(canonical_json(data)) ELSE ZeroBytes32

\* AgentRegistry.submit_validation up to the call of
\* TronClient.validation_request.
RegistrySubmitValidation ==
    /\ pc = "registry"
    /\ request.method = "submit_validation"
    /\ op' = "validation_request"
    /\ args' = [method |-> "validation_request", agent_id |-> request.agent_id,
                validator |-> request.validator_address,
                request_uri |-> request.request_uri,
                request_data_hash |-> data_hash(request.request_data)]
    /\ pc' = "start"
    /\ UNCHANGED <<config, private_key, identity_address, validation_address,
                   reputation_address, request, gateway_url, uri, env_gateway, world,
                   file_state, attempt, last_error, outcome, events, fetchFrame, suspended,
                   registration>>

\* AgentRegistry.complete_validation up to the call of
\* TronClient.complete_validation.
RegistryCompleteValidation ==
    /\ pc = "registry"
    /\ request.method = "complete_validation"
    /\ LET id == request_id_bytes(request.request_id.s)
       IN  IF ~id.ok
           THEN /\ pc' = "done"
                /\ outcome' = Raised(id.error)
                /\ UNCHANGED <<op, args>>
           ELSE /\ op' = "complete_validation"
                /\ args' = [method |-> "complete_validation", request_id |-> id.value,
                            result_uri |-> request.result_uri,
                            result_hash |-> data_hash(request.result_data),
                            tag |-> request.tag, response |-> request.response]
                /\ pc' = "start"
                /\ outcome' = outcome
    /\ UNCHANGED <<config, private_key, identity_address, validation_address,
                   reputation_address, request, gateway_url, uri, env_gateway, world,
                   file_state, attempt, last_error, events, fetchFrame, suspended,
                   registration>>

\* AgentRegistry.reject_validation up to the call of
\* TronClient.reject_validation.
RegistryRejectValidation ==
    /\ pc = "registry"
    /\ request.method = "reject_validation"
    /\ LET id == request_id_bytes(request.request_id.s)
       IN  IF ~id.ok
           THEN /\ pc' = "done"
                /\ outcome' = Raised(id.error)
                /\ UNCHANGED <<op, args>>
           ELSE /\ op' = "reject_validation"
                /\ args' = [method |-> "reject_validation", request_id |-> id.value,
                            result_uri |-> request.result_uri,
                            reason_hash |-> data_hash(request.reason_data),
                            tag |-> request.tag, response |-> request.response]
                /\ pc' = "start"
                /\ outcome' = outcome
    /\ UNCHANGED <<config, private_key, identity_address, validation_address,
                   reputation_address, request, gateway_url, uri, env_gateway, world,
                   file_state, attempt, last_error, events, fetchFrame, suspended,
                   registration>>

\* Documents a caller passes: {"a":1}, {"b":2,"a":{"d":"x","c":[1]}}, {}.
DocSmall == PyDict(<<Entry(<<"a">>, PyInt(1))>>)

DocNested ==
    PyDict(<<Entry(<<"b">>, PyInt(2)),
             Entry(<<"a">>, PyDict(<<Entry(<<"d">>, PyStr(TxtTag)),
                                     Entry(<<"c">>, PyList(<<Element(PyInt(1))>>))>>))>>)

DocEmpty == PyDict(<<>>)

\* The optional document argument: not given (None), or a document.
OptionalDocs == {NoValue, DocEmpty, DocSmall, DocNested}

\* Calls of submit_validation, complete_validation and reject_validation of the
\* AgentRegistry.
RegistryCalls ==
    {[method |-> "submit_validation", agent_id |-> PyInt(7),
      validator_address |-> PyStr(TxtValidator), request_uri |-> PyStr(UriIpfs1),
      request_data |-> d] : d \in OptionalDocs}
    \cup
    {[method |-> "complete_validation", request_id |-> PyStr(TxtRequestId),
      result_uri |-> PyStr(UriIpfs1), result_data |-> d, tag |-> PyStr(<<>>),
      response |-> PyInt(CompleteResponseDefault)] : d \in OptionalDocs}
    \cup
    {[method |-> "complete_validation", request_id |-> PyStr(i),
      result_uri |-> PyStr(UriIpfs1), result_data |-> DocSmall, tag |-> PyStr(TxtTag),
      response |-> PyInt(50)] : i \in {TxtRequestIdBare, TxtRequestIdOdd, TxtRequestIdBad}}
    \cup
    {[method |-> "reject_validation", request_id |-> PyStr(TxtRequestId),
      result_uri |-> PyStr(<<>>), reason_data |-> d, tag |-> PyStr(<<>>),
      response |-> PyInt(RejectResponseDefault)] : d \in OptionalDocs}
    \cup
    {[method |-> "reject_validation", request_id |-> PyStr(TxtRequestIdBad),
      result_uri |-> PyStr(<<>>), reason_data |-> NoValue, tag |-> PyStr(<<>>),
      response |-> PyInt(RejectResponseDefault)]}

\* ------------------------------------------------ normalize_hash, utils/crypto

\* Mutant of normalize_hash: the prefix is stripped, the case kept.
normalize_hash_keep_case(value) ==
    IF Expand(value) = <<>>
    THEN <<>>
    ELSE LET cleaned == Expand(value)
         IN  IF StartsWithChars(cleaned, Expand(HexPrefix))
             THEN Word(SubSeq(cleaned, 3, Len(cleaned)))
             ELSE Word(cleaned)

\* normalize_hash(value)
normalize_hash(value) ==
    IF Expand(value) = <<>>
    THEN <<>>
    ELSE LET cleaned == Lower(value)
         IN  IF StartsWithChars(cleaned, Expand(HexPrefix))
             THEN Word(SubSeq(cleaned, 3, Len(cleaned)))
             ELSE Word(cleaned)

\* normalize_hash(request.value), called directly.
NormalizeHash ==
    /\ pc = "normalize"
    /\ request.method = "normalize_hash"
    /\ pc' = "done"
    /\ outcome' = Returned(normalize_hash(request.value))
    /\ UNCHANGED <<attempt, last_error, events, gidx, fetch_last_error, givens>>

\* str.upper() on one character.
UpperChar(c) ==
    IF \E i \in 1..26 : LowerChars[i] = c
    THEN UpperChars[CHOOSE i \in 1..26 : LowerChars[i] = c]
    ELSE c

\* The characters cs in every mix of upper and lower case.
RECURSIVE CaseVariants(_)
CaseVariants(cs) ==
    IF cs = <<>>
    THEN {<<>>}
    ELSE {<<h>> \o t : h \in {LowerChar(Head(cs)), UpperChar(Head(cs))},
                       t \in CaseVariants(Tail(cs))}

\* The renderings of the hex digest cs: any letter case, with or without the
\* prefix 0x, itself in either case.
Renderings(cs) ==
    {p \o c : p \in {<<>>} \cup CaseVariants(Expand(HexPrefix)), c \in CaseVariants(cs)}

\* Hex digests, cut short: letters and digits, digits only, a leading zero,
\* the empty one.
HexDigests ==
    {<<"a", "b", "1", "f">>, <<"d", "e", "a", "d">>, <<"0", "0", "e">>,
     <<"1", "2">>, <<>>}

NormalizeCalls ==
    {[method |-> "normalize_hash", value |-> Word(r)] :
         r \in UNION {Renderings(d) : d \in HexDigests}}

\* ------------------------------------------- is_retryable_error, utils/retry

\* is_retryable_error(request.error), called directly.
ClassifyError ==
    /\ pc = "classify"
    /\ request.method = "is_retryable_error"
    /\ pc' = "done"
    /\ outcome' = Returned(is_retryable_error(request.error))
    /\ UNCHANGED <<attempt, last_error, events, gidx, fetch_last_error, givens>>

\* Error messages: the keywords rpc and node in every letter case, each other
\* keyword inside a sentence, a keyword inside a longer word, near misses, no
\* keyword, the empty message.
ErrorMessages ==
    {Word(m) : m \in CaseVariants(Expand(KwRpc)) \cup CaseVariants(Expand(KwNode))}
        \cup {TxtReadTimeout, TxtConnectionRefused, TxtServiceUnavailable, TxtNodejs,
              MsgAllGatewaysFailed, KwNetwork, TxtTimeOut, TxtGateWay, TxtConnect,
              TxtUnauthorized, TxtInvalidSentiment, TxtRevert, <<>>}

\* Errors of builtin types and of the SDK's types carrying these messages.
ClassifiedErrors ==
    {PlainError(t, m) : t \in {"ValueError", "TimeoutError"}, m \in ErrorMessages}
        \cup {ConfigurationError(m) : m \in ErrorMessages}
        \cup {ContractError(m) : m \in ErrorMessages}
        \cup {NetworkError(m) : m \in ErrorMessages}
        \cup {StorageError(m) : m \in ErrorMessages}

ClassifyCalls == {[method |-> "is_retryable_error", error |-> e] : e \in ClassifiedErrors}
\* ------------------------------------------------- RegistryAPI, api/client

\* self.client.get(url) / self.client.post(url)
ApiEvent(verb, url, resp) ==
    [ev |-> "api", verb |-> verb, url |-> Word(Expand(url)), code |-> resp.code]

\* f"{agent_id}" of an int, of a str, or of the transaction id the node gave
\* (a str: TxtTxId and the serial of the transaction)
IdText(id) ==
    IF "txid" \in DOMAIN id THEN TxtTxId \o DecimalChars(id.txid)
    ELSE IF id.t = "int" THEN DecimalChars(id.n)
    ELSE id.s

\* RegistryAPI.get_agent: the result of one execution.
get_agent_result(agent_id, resp) ==
    IF resp.kind = "ok"
    THEN Ok([agent |-> agent_id, from |-> NewId])
    ELSE IF resp.kind = "status"
         THEN IF resp.code = 404
              THEN Err(RaisedHere(NetworkError(MsgAgent \o IdText(agent_id) \o MsgNotFound)))
              ELSE Err(RaisedHere(NetworkError(MsgFailedGetAgent \o Str(resp.error))))
         ELSE Err(RaisedHere(NetworkError(MsgApiRequestFailed \o Str(resp.error))))

\* RegistryAPI.get_agent: one execution under the retry wrapper.
GetAgentAttempt ==
    /\ op = "get_agent"
    /\ pc = "attempting"
    /\ \E resp \in world.answers :
          wrapper_result(get_agent_result(args.agent_id, resp),
                         <<ApiEvent("GET", TxtApiBase \o PathAgents \o IdText(args.agent_id),
                                    resp)>>)
    /\ UNCHANGED <<givens, fetchFrame>>

\* RegistryAPI.sync_agent: the result of one execution.
sync_agent_result(agent_id, resp) ==
    IF resp.kind = "ok"
    THEN Ok([synced |-> agent_id, from |-> NewId])
    ELSE Err(RaisedHere(NetworkError(MsgSyncFailed \o Str(resp.error))))

\* RegistryAPI.sync_agent: one execution under the retry wrapper.
SyncAgentAttempt ==
    /\ op = "sync_agent"
    /\ pc = "attempting"
    /\ \E resp \in world.answers :
          wrapper_result(sync_agent_result(args.agent_id, resp),
                         <<ApiEvent("POST",
                                    TxtApiBase \o PathAgents \o IdText(args.agent_id)
                                        \o PathSync, resp)>>)
    /\ UNCHANGED <<givens, fetchFrame>>

\* RegistryAPI.upload_to_ipfs: the result of one execution, u the URI in the
\* body of a fitting answer.
upload_to_ipfs_result(resp, u) ==
    IF resp.kind = "ok"
    THEN Ok(PyStr(u))
    ELSE Err(RaisedHere(NetworkError(MsgUploadFailed \o Str(resp.error))))

\* RegistryAPI.upload_to_ipfs: one execution under the retry wrapper.
UploadAttempt ==
    /\ op = "upload_to_ipfs"
    /\ pc = "attempting"
    /\ \E resp \in world.answers, u \in world.uris :
          wrapper_result(upload_to_ipfs_result(resp, u),
                         <<ApiEvent("POST", TxtApiBase \o PathUpload, resp)>>)
    /\ UNCHANGED <<givens, fetchFrame>>

\* Calls of get_agent, sync_agent and upload_to_ipfs.
ApiCalls ==
    {[method |-> "get_agent", agent_id |-> PyInt(7)],
     [method |-> "sync_agent", agent_id |-> PyInt(7)],
     [method |-> "upload_to_ipfs", data |-> PyDict(<<Entry(<<"a">>, PyInt(1))>>)]}
\* ------------------------------------------- AgentRegistry.register_agent

\* skills or [], endpoints or [], tags or []
OrEmptyList(v) == IF Truthy(v) THEN v ELSE PyList(<<>>)

\* metadata = {"name": name, "description": description, "version": version,
\*             "skills": skills or [], "endpoints": endpoints or [],
\*             "tags": tags or [], **kwargs}
register_metadata(r) ==
    PyDict(<<Entry(Expand(KeyName), r.name),
             Entry(Expand(KeyDescription), r.description),
             Entry(Expand(KeyVersion), r.version),
             Entry(Expand(KeySkills), OrEmptyList(r.skills)),
             Entry(Expand(KeyEndpoints), OrEmptyList(r.endpoints)),
             Entry(Expand(KeyTags), OrEmptyList(r.tags))>> \o r.kwargs)

\* The wrapper of the next awaited method, not started.
AwaitNext(method, a) ==
    /\ op' = method
    /\ args' = a
    /\ pc' = "start"
    /\ attempt' = 0
    /\ last_error' = None
    /\ outcome' = Pending

\* The exception of the awaited method leaves register_agent: what the caller
\* of the method got is what the caller of register_agent gets.
RegisterRaise ==
    /\ registration' = [registration EXCEPT !.step = "over"]
    /\ UNCHANGED <<op, args, pc, attempt, last_error, outcome>>

\* AgentRegistry.register_agent up to the call of RegistryAPI.upload_to_ipfs.
RegisterBegin ==
    /\ pc = "registry"
    /\ request.method = "register_agent"
    /\ registration' = [registration EXCEPT !.step = "upload"]
    /\ op' = "upload_to_ipfs"
    /\ args' = [method |-> "upload_to_ipfs", data |-> register_metadata(request)]
    /\ pc' = "start"
    /\ UNCHANGED <<config, private_key, identity_address, validation_address,
                   reputation_address, request, gateway_url, uri, env_gateway, world,
                   file_state, attempt, last_error, outcome, events, fetchFrame, suspended>>

\* Mutant of RegisterAfterUpload: the failure of the upload is swallowed and
\* the ledger is handed the URI the document was expected to get.
RegisterAfterUpload_unchecked ==
    /\ registration.step = "upload"
    /\ pc = "done"
    /\ LET token_uri == IF outcome.kind = "raised" THEN PyStr(UriIpfs1) ELSE outcome.value
       IN  /\ registration' = [registration EXCEPT !.step = "ledger",
                                                   !.token_uri = token_uri]
           /\ AwaitNext("register_agent",
                        [method |-> "register_agent", token_uri |-> token_uri,
                         metadata_hash |->
                             keccak256_bytes(canonical_json(register_metadata(request)))])
    /\ UNCHANGED <<config, private_key, identity_address, validation_address,
                   reputation_address, request, gateway_url, uri, env_gateway, world,
                   file_state, events, fetchFrame, suspended>>

\* token_uri = await self.api.upload_to_ipfs(metadata) is over:
\* metadata_hash is computed and TronClient.register_agent is called.
RegisterAfterUpload ==
    /\ registration.step = "upload"
    /\ pc = "done"
    /\ IF outcome.kind = "raised"
       THEN RegisterRaise
       ELSE /\ registration' = [registration EXCEPT !.step = "ledger",
                                                    !.token_uri = outcome.value]
            /\ AwaitNext("register_agent",
                         [method |-> "register_agent", token_uri |-> outcome.value,
                          metadata_hash |->
                              keccak256_bytes(canonical_json(register_metadata(request)))])
    /\ UNCHANGED <<config, private_key, identity_address, validation_address,
                   reputation_address, request, gateway_url, uri, env_gateway, world,
                   file_state, events, fetchFrame, suspended>>

\* tx_id = await self.chain.register_agent(token_uri, metadata_hash) is over:
\* RegistryAPI.sync_agent is called with tx_id.
RegisterAfterLedger ==
    /\ registration.step = "ledger"
    /\ pc = "done"
    /\ IF outcome.kind = "raised"
       THEN RegisterRaise
       ELSE /\ registration' = [registration EXCEPT !.step = "sync",
                                                    !.tx_id = outcome.value]
            /\ AwaitNext("sync_agent",
                         [method |-> "sync_agent", agent_id |-> outcome.value])
    /\ UNCHANGED <<config, private_key, identity_address, validation_address,
                   reputation_address, request, gateway_url, uri, env_gateway, world,
                   file_state, events, fetchFrame, suspended>>

\* Mutant of RegisterAfterSync: no try around the sync.
RegisterAfterSync_unguarded ==
    /\ registration.step = "sync"
    /\ pc = "done"
    /\ registration' = [registration EXCEPT !.step = "over"]
    /\ outcome' = IF outcome.kind = "raised" THEN outcome
                  ELSE Returned(registration.tx_id)
    /\ UNCHANGED <<settings, suspended, pc, attempt, last_error, events, fetchFrame>>

\* try: await self.api.sync_agent(tx_id) / except Exception: pass /
\* return tx_id
RegisterAfterSync ==
    /\ registration.step = "sync"
    /\ pc = "done"
    /\ registration' = [registration EXCEPT !.step = "over"]
    /\ outcome' = IF outcome.kind = "raised" /\ ~IsException(outcome.error)
                  THEN outcome
                  ELSE Returned(registration.tx_id)
    /\ UNCHANGED <<settings, suspended, pc, attempt, last_error, events, fetchFrame>>

\* Calls of register_agent: lists given and left out, with and without
\* keyword arguments of the caller's own.
RegisterCalls ==
    {[method |-> "register_agent", name |-> PyStr(TxtAgentName),
      description |-> PyStr(TxtAgentAbout), version |-> PyStr(TxtVersion1),
      skills |-> c.skills, endpoints |-> NoValue, tags |-> NoValue,
      kwargs |-> c.kwargs] :
        c \in {[skills |-> NoValue, kwargs |-> <<>>],
               [skills |-> PyList(<<Element(PyStr(TxtTag))>>),
                kwargs |-> <<Entry(<<"a">>, PyInt(1))>>]}}

\* Runs of register_agent: what the backend and the node can answer in each.
RegisterWorlds ==
    {[node |-> {[fail |-> "none", error |-> None],
                [fail |-> "broadcast_unsent",
                 error |-> PlainError("TimeoutError", TxtReadTimeout)]},
      answers |-> {a \in ApiResponses : a.code \in {200, 500} /\ a.kind # "misfit"},
      uris |-> {UriIpfs1}],
     [node |-> {[fail |-> "none", error |-> None],
                [fail |-> "get_contract",
                 error |-> PlainError("TransactionError", TxtRevert)]},
      answers |-> {a \in ApiResponses : a.kind \in {"ok", "transport"}},
      uris |-> {UriIpfs2}],
     [node |-> {[fail |-> "none", error |-> None]},
      answers |-> {a \in ApiResponses : a.kind \in {"ok", "misfit"} \/ a.code = 404},
      uris |-> UploadUris]}

\* The calls of the TronClient methods modelled.
ClientCalls ==
    {RegisterAgentArgs, ValidationRequestArgs}
        \cup GiveFeedbackCalls \cup AppendResponseCalls
        \cup CompleteValidationCalls \cup RejectValidationCalls

\* TronClient.__init__: the contract addresses given.  All, none, or only the
\* identity registry's.
ClientAddresses ==
    {[identity |-> TRUE, validation |-> TRUE, reputation |-> TRUE],
     [identity |-> TRUE, validation |-> FALSE, reputation |-> FALSE],
     [identity |-> FALSE, validation |-> FALSE, reputation |-> FALSE]}

InitClient ==
    /\ InitCall
    /\ args \in ClientCalls
    /\ op = args.method
    /\ request = NoArgs
    /\ config = DEFAULT_RETRY_CONFIG
    /\ private_key \in BOOLEAN
    /\ \E a \in ClientAddresses :
          /\ identity_address = a.identity
          /\ validation_address = a.validation
          /\ reputation_address = a.reputation
    /\ gateway_url = storage_gateway_url(<<>>)
    /\ uri = <<>>
    /\ env_gateway = NoEnv
    /\ file_state = "missing"
    /\ suspended = NoFrame
    /\ world = AnyWorld
    /\ registration = NoRegistration

NextClient ==
    \/ Call
    \/ RegisterAgentAttempt
    \/ ValidationRequestAttempt
    \/ CompleteValidationAttempt
    \/ RejectValidationAttempt
    \/ GiveFeedbackAttempt
    \/ AppendResponseAttempt
    \/ Wake

SpecClient == InitClient /\ [][NextClient]_vars

InitRegistry ==
    /\ pc = "registry"
    /\ attempt = 0
    /\ last_error = None
    /\ outcome = Pending
    /\ events = <<>>
    /\ gidx = 0
    /\ fetch_last_error = None
    /\ op = "none"
    /\ args = NoArgs
    /\ request \in RegistryCalls
    /\ config = DEFAULT_RETRY_CONFIG
    /\ private_key \in BOOLEAN
    /\ identity_address = TRUE
    /\ validation_address = TRUE
    /\ reputation_address = TRUE
    /\ gateway_url = storage_gateway_url(<<>>)
    /\ uri = <<>>
    /\ env_gateway = NoEnv
    /\ file_state = "missing"
    /\ suspended = NoFrame
    /\ world = AnyWorld
    /\ registration = NoRegistration

NextRegistry ==
    \/ RegistrySubmitValidation
    \/ RegistryCompleteValidation
    \/ RegistryRejectValidation
    \/ Call
    \/ ValidationRequestAttempt
    \/ CompleteValidationAttempt
    \/ RejectValidationAttempt
    \/ Wake

SpecRegistry == InitRegistry /\ [][NextRegistry]_vars


\* ------------------------------------------------------- the document hash

InitHash ==
    /\ pc = "hash"
    /\ attempt = 0
    /\ last_error = None
    /\ outcome = Pending
    /\ events = <<>>
    /\ gidx = 0
    /\ fetch_last_error = None
    /\ op = "none"
    /\ args = NoArgs
    /\ request \in {[method |-> "compute_metadata_hash", metadata |-> d] : d \in Documents}
    /\ config = DEFAULT_RETRY_CONFIG
    /\ private_key = FALSE
    /\ identity_address = FALSE
    /\ validation_address = FALSE
    /\ reputation_address = FALSE
    /\ gateway_url = storage_gateway_url(<<>>)
    /\ uri = <<>>
    /\ env_gateway = NoEnv
    /\ file_state = "missing"
    /\ suspended = NoFrame
    /\ world = AnyWorld
    /\ registration = NoRegistration

NextHash == ComputeMetadataHash

SpecHash == InitHash /\ [][NextHash]_vars
\* -------------------------------------------------------- normalize_hash

InitNormalize ==
    /\ pc = "normalize"
    /\ attempt = 0
    /\ last_error = None
    /\ outcome = Pending
    /\ events = <<>>
    /\ gidx = 0
    /\ fetch_last_error = None
    /\ op = "none"
    /\ args = NoArgs
    /\ request \in NormalizeCalls
    /\ config = DEFAULT_RETRY_CONFIG
    /\ private_key = FALSE
    /\ identity_address = FALSE
    /\ validation_address = FALSE
    /\ reputation_address = FALSE
    /\ gateway_url = storage_gateway_url(<<>>)
    /\ uri = <<>>
    /\ env_gateway = NoEnv
    /\ file_state = "missing"
    /\ suspended = NoFrame
    /\ world = AnyWorld
    /\ registration = NoRegistration

NextNormalize == NormalizeHash

SpecNormalize == InitNormalize /\ [][NextNormalize]_vars

\* ----------------------------------------------------- is_retryable_error

InitClassify ==
    /\ pc = "classify"
    /\ attempt = 0
    /\ last_error = None
    /\ outcome = Pending
    /\ events = <<>>
    /\ gidx = 0
    /\ fetch_last_error = None
    /\ op = "none"
    /\ args = NoArgs
    /\ request \in ClassifyCalls
    /\ config = DEFAULT_RETRY_CONFIG
    /\ private_key = FALSE
    /\ identity_address = FALSE
    /\ validation_address = FALSE
    /\ reputation_address = FALSE
    /\ gateway_url = storage_gateway_url(<<>>)
    /\ uri = <<>>
    /\ env_gateway = NoEnv
    /\ file_state = "missing"
    /\ suspended = NoFrame
    /\ world = AnyWorld
    /\ registration = NoRegistration

NextClassify == ClassifyError

SpecClassify == InitClassify /\ [][NextClassify]_vars

\* ------------------------------------------- two calls on one event loop

\* Two calls of one decorated function, both under DEFAULT_RETRY_CONFIG.
InitConcurrent ==
    /\ InitCall
    /\ op = "func"
    /\ config = DEFAULT_RETRY_CONFIG
    /\ private_key = FALSE
    /\ identity_address = FALSE
    /\ validation_address = FALSE
    /\ reputation_address = FALSE
    /\ request = NoArgs
    /\ args = NoArgs
    /\ gateway_url = storage_gateway_url(<<>>)
    /\ uri = <<>>
    /\ env_gateway = NoEnv
    /\ file_state = "missing"
    /\ suspended = NewFrame
    /\ world = AnyWorld
    /\ registration = NoRegistration

NextConcurrent == Call \/ FuncAttempt \/ Wake \/ Switch

SpecConcurrent == InitConcurrent /\ [][NextConcurrent]_vars

\* ------------------------------------------------------- the backend API

InitApi ==
    /\ InitCall
    /\ args \in ApiCalls
    /\ op = args.method
    /\ request = NoArgs
    /\ config = DEFAULT_RETRY_CONFIG
    /\ private_key = FALSE
    /\ identity_address = FALSE
    /\ validation_address = FALSE
    /\ reputation_address = FALSE
    /\ gateway_url = storage_gateway_url(<<>>)
    /\ uri = <<>>
    /\ env_gateway = NoEnv
    /\ file_state = "missing"
    /\ suspended = NoFrame
    /\ world = AnyWorld
    /\ registration = NoRegistration

NextApi == Call \/ GetAgentAttempt \/ SyncAgentAttempt \/ UploadAttempt \/ Wake

SpecApi == InitApi /\ [][NextApi]_vars

InitRegister ==
    /\ pc = "registry"
    /\ attempt = 0
    /\ last_error = None
    /\ outcome = Pending
    /\ events = <<>>
    /\ gidx = 0
    /\ fetch_last_error = None
    /\ op = "none"
    /\ args = NoArgs
    /\ request \in RegisterCalls
    /\ config = DEFAULT_RETRY_CONFIG
    /\ private_key \in BOOLEAN
    /\ identity_address = TRUE
    /\ validation_address = FALSE
    /\ reputation_address = FALSE
    /\ gateway_url = storage_gateway_url(<<>>)
    /\ uri = <<>>
    /\ env_gateway = NoEnv
    /\ file_state = "missing"
    /\ suspended = NoFrame
    /\ world \in RegisterWorlds
    /\ registration = NoRegistration

NextRegister ==
    \/ RegisterBegin
    \/ Call
    \/ UploadAttempt
    \/ Wake
    \/ RegisterAfterUpload
    \/ RegisterAgentAttempt
    \/ RegisterAfterLedger
    \/ SyncAgentAttempt
    \/ RegisterAfterSync

SpecRegister == InitRegister /\ [][NextRegister]_vars

\* ------------------------------------------------------------------ claims

IsExec(e) == e.ev = "exec"

IsSleep(e) == e.ev = "sleep"

IsBroadcast(e) == e.ev = "broadcast"

\* The executions of the wrapped operation so far, in order.
ExecSeq == SelectSeq(events, IsExec)

RetryableFailure(e) == IsExec(e) /\ ~e.ok /\ is_retryable_error(e.error)

FatalFailure(e) == IsExec(e) /\ ~e.ok /\ ~is_retryable_error(e.error)

Success(e) == IsExec(e) /\ e.ok

\* C1: with max_attempts = N >= 1 the operation is never executed more than N
\* times, and a call whose every attempt failed with a retryable error has
\* executed it exactly N times and raised the error of the N-th attempt.
C1_ExhaustedAfterN ==
    (op = "func" /\ config.max_attempts >= 1) =>
        /\ Len(ExecSeq) <= config.max_attempts
        /\ (pc = "done" /\ \A i \in 1..Len(ExecSeq) : RetryableFailure(ExecSeq[i])) =>
              /\ Len(ExecSeq) = config.max_attempts
              /\ outcome = Raised(ExecSeq[config.max_attempts].error)

C1_Witness ==
    /\ op = "func"
    /\ pc = "done"
    /\ config.max_attempts = 3
    /\ Len(ExecSeq) = 3
    /\ \A i \in 1..3 : RetryableFailure(ExecSeq[i])
    /\ outcome.kind = "raised"

\* C2: an attempt that fails with a fatal error ends the call at once: it is
\* the last event (no sleep and no attempt follows), the caller gets that
\* error, and the attempt is the only execution since the last sleep.
C2_FatalRaisesAtOnce ==
    op = "func" =>
        \A i \in DOMAIN events :
            FatalFailure(events[i]) =>
                /\ i = Len(events)
                /\ pc = "done"
                /\ outcome = Raised(events[i].error)
                /\ (i > 1 => IsSleep(events[i - 1]))

C2_Witness ==
    /\ op = "func"
    /\ config.max_attempts = 3
    /\ Len(events) = 3
    /\ RetryableFailure(events[1])
    /\ IsSleep(events[2])
    /\ FatalFailure(events[3])
    /\ outcome.kind = "raised"

\* C3: one call of a ledger write broadcasts at most one transaction.
C3_AtMostOneBroadcast ==
    op = "register_agent" =>
        Cardinality({i \in DOMAIN events : IsBroadcast(events[i])}) <= 1

\* C4: a successful attempt k ends the call: it is the last event, the caller
\* gets its result, the operation ran exactly k <= max_attempts times and the
\* k-1 attempts before it failed with retryable errors.
C4_SuccessIsTerminal ==
    op = "func" =>
        \A i \in DOMAIN events :
            Success(events[i]) =>
                /\ i = Len(events)
                /\ pc = "done"
                /\ outcome = Returned(events[i].value)
                /\ outcome.value.from = events[i].attempt
                /\ Len(ExecSeq) = events[i].attempt
                /\ events[i].attempt <= config.max_attempts
                /\ \A j \in 1..(Len(ExecSeq) - 1) : RetryableFailure(ExecSeq[j])

C4_Witness ==
    /\ op = "func"
    /\ pc = "done"
    /\ outcome.kind = "returned"
    /\ Len(ExecSeq) = 3
    /\ Success(ExecSeq[3])
    /\ Len(SelectSeq(events, IsSleep)) = 2

\* C5: a call that ends in failure raises the very error object the last
\* executed attempt raised: same identity, type, code and message.
C5_RaisesLastErrorUnchanged ==
    (op = "func" /\ pc = "done" /\ outcome.kind = "raised") =>
        /\ Len(ExecSeq) >= 1
        /\ ~ExecSeq[Len(ExecSeq)].ok
        /\ outcome.error = ExecSeq[Len(ExecSeq)].error
        /\ outcome.error.oid = Len(ExecSeq)

C5_Witness ==
    /\ op = "func"
    /\ pc = "done"
    /\ outcome.kind = "raised"
    /\ Len(ExecSeq) = 3
    /\ ExecSeq[1].error.type = "TimeoutError"
    /\ ExecSeq[3].error.type = "ConnectionError"

IsContact(e) == e.ev = "contact"

IsRequest(e) == e.ev = "request"

\* The gateway list of the IPFSStorage instance.
G == gateways(gateway_url)

\* Position of default gateway d in list l (0 when absent).
PosIn(l, d) == IF \E k \in 1..Len(l) : SameText(l[k], d)
               THEN CHOOSE k \in 1..Len(l) : SameText(l[k], d)
               ELSE 0

\* C6: when fetch is called the gateway list is the preferred gateway followed
\* by the defaults without duplicates and in their order; each pass contacts
\* the gateways in listed order, at <gateway>/<cid>; the first gateway that
\* answers ends the call: nothing is contacted after it and its result is
\* returned, not raised.
C6_FirstSuccessShortCircuits ==
    /\ (op = "fetch" /\ pc = "start") =>
          /\ SameText(G[1], gateway_url)
          /\ \A a, b \in 1..Len(G) : SameText(G[a], G[b]) => a = b
          /\ \A d \in 1..Len(DEFAULT_GATEWAYS) : PosIn(G, DEFAULT_GATEWAYS[d]) > 0
          /\ \A d, f \in 1..Len(DEFAULT_GATEWAYS) :
                (d < f /\ ~SameText(DEFAULT_GATEWAYS[d], gateway_url)
                       /\ ~SameText(DEFAULT_GATEWAYS[f], gateway_url))
                    => PosIn(G, DEFAULT_GATEWAYS[d]) < PosIn(G, DEFAULT_GATEWAYS[f])
          /\ Len(G) <= Len(DEFAULT_GATEWAYS) + 1
    /\ op = "fetch" =>
          LET list == G
              url == [k \in 1..Len(list) |-> RStripSlash(list[k]) \o <<"/">> \o fetch_cid(uri)]
          IN  \A i \in DOMAIN events :
              IsContact(events[i]) =>
                  /\ events[i].index = IF i > 1 /\ IsContact(events[i - 1])
                                       THEN events[i - 1].index + 1
                                       ELSE 1
                  /\ events[i].gateway = list[events[i].index]
                  /\ events[i].url = url[events[i].index]
                  /\ events[i].ok =>
                        /\ i + 1 = Len(events)
                        /\ Success(events[i + 1])
                        /\ pc = "done"
                        /\ outcome = Returned(events[i].value)

\* Three gateways, only the third answers: its result is returned.
C6_Witness ==
    /\ op = "fetch"
    /\ Len(G) = 3
    /\ Len(events) = 4
    /\ IsContact(events[1]) /\ ~events[1].ok /\ SameText(events[1].gateway, GatewayIpfsIo)
    /\ IsContact(events[2]) /\ ~events[2].ok /\ SameText(events[2].gateway, GatewayPinata)
    /\ IsContact(events[3]) /\ events[3].ok /\ SameText(events[3].gateway, GatewayCloudflare)
    /\ outcome = Returned(events[3].value)
    /\ SameText(outcome.value.of, GatewayCloudflare \o <<"/">> \o CidBare)

\* Number of contacts of the gateway at position g among the first i events.
ContactsOf(g, i) ==
    Cardinality({j \in 1..i : IsContact(events[j]) /\ events[j].index = g})

\* The first contact after event i, 0 when there is none.
NextContact(i) ==
    IF \E j \in (i + 1)..Len(events) : IsContact(events[j])
    THEN CHOOSE j \in (i + 1)..Len(events) :
            /\ IsContact(events[j])
            /\ \A k \in (i + 1)..(j - 1) : ~IsContact(events[k])
    ELSE 0

\* C7: each gateway has its own retry budget: a gateway that fails with a
\* retryable error is asked again, up to max_attempts times, before the next
\* one; the loader never goes back to an earlier gateway; and the StorageError
\* raised after the last gateway is terminal (no sleep, no second traversal).
C7_PerGatewayRetry ==
    op = "fetch" =>
        /\ \A i, j \in DOMAIN events :
              (i < j /\ IsContact(events[i]) /\ IsContact(events[j]))
                  => events[i].index <= events[j].index
        /\ \A i \in DOMAIN events :
              (/\ IsContact(events[i])
               /\ ~events[i].ok
               /\ is_retryable_error(events[i].error)
               /\ ContactsOf(events[i].index, i) < config.max_attempts
               /\ NextContact(i) # 0)
                  => events[NextContact(i)].index = events[i].index
        /\ \A i \in DOMAIN events :
              (IsExec(events[i]) /\ ~events[i].ok /\ events[i].error.type = "StorageError")
                  => (i = Len(events) /\ pc = "done")

\* C8: an execution of fetch in which every gateway failed raises a
\* StorageError whose text carries the error of the last gateway of the list;
\* when the call raises, that is the error of the gateway contacted last, and
\* every gateway has failed since the last sleep; a call returns a value only
\* when the gateway contacted last answered.
C8_StorageErrorCarriesLast ==
    /\ op = "fetch" =>
          \A i \in DOMAIN events :
              (IsExec(events[i]) /\ ~events[i].ok) =>
                  /\ i > 1
                  /\ IsContact(events[i - 1])
                  /\ ~events[i - 1].ok
                  /\ events[i - 1].index = Len(G)
                  /\ events[i].error =
                        [StorageError(MsgAllGatewaysFailed \o Str(events[i - 1].error))
                            EXCEPT !.oid = events[i].error.oid]
    /\ (op = "fetch" /\ pc = "done") =>
        LET last == events[Len(events) - 1]
        IN  /\ Len(events) >= 2
            /\ IsContact(last)
            /\ outcome.kind \in {"raised", "returned"}
            /\ outcome.kind = "raised" =>
                  /\ outcome.error.type = "StorageError"
                  /\ outcome.error.code = CodeStorage
                  /\ ~last.ok
                  /\ last.index = Len(G)
                  /\ SameText(outcome.error.message,
                              MsgAllGatewaysFailed \o Str(last.error))
                  /\ \A g \in 1..Len(G) :
                        \E i \in DOMAIN events :
                            /\ IsContact(events[i]) /\ ~events[i].ok
                            /\ events[i].index = g
                            /\ \A k \in i..(Len(events) - 1) : IsContact(events[k])
            /\ outcome.kind = "returned" => last.ok

\* All gateways fail in every pass, the last one differently from the first.
C8_Witness ==
    /\ op = "fetch"
    /\ pc = "done"
    /\ outcome.kind = "raised"
    /\ outcome.error.type = "StorageError"
    /\ Len(G) = 4
    /\ events[Len(events) - 1].error.type = "HTTPStatusError"
    /\ events[Len(events) - 4].error.type = "ReadTimeout"
    /\ Cardinality(Contacts) = 12

\* The ordered gateway list load_request_data would fall back along.
LoadGateways == gateways(getenv_gateway(GatewayIpfsIo))

\* C9: load of ipfs://<id> fails only after every gateway of the ordered list
\* (preferred first, then the defaults) has been asked and has failed.
C9_LoadTriesEveryGateway ==
    (op = "load" /\ StartsWith(uri, SchemeIpfs) /\ pc = "done" /\ outcome.kind = "raised") =>
        \A g \in 1..Len(LoadGateways) :
            \E i \in DOMAIN events :
                /\ IsRequest(events[i])
                /\ ~events[i].ok
                /\ SameText(events[i].url,
                            RStripSlash(LoadGateways[g]) \o <<"/">>
                                \o ReplaceFirst(uri, SchemeIpfs))

IsHttpUri(u) == StartsWith(u, SchemeHttp) \/ StartsWith(u, SchemeHttps)

\* C10: load of an http(s) URI goes through the retry engine: a load that ended
\* with a retryable error has made max_attempts requests, all to the URI itself.
C10_LoadHttpRetried ==
    (op = "load" /\ IsHttpUri(uri) /\ pc = "done" /\ outcome.kind = "raised"
        /\ is_retryable_error(outcome.error)) =>
        /\ Cardinality(Requests) = config.max_attempts
        /\ \A i \in Requests : SameText(events[i].url, uri)

\* ------------------------------------------------------------ claims C11..

IsOpen(e) == e.ev = "open"

\* C11: load of a file:// URI opens the path (the URI without its first
\* file://) once and does nothing else: no request is sent, no gateway is
\* contacted, the retry engine is not entered and nothing sleeps; when the file
\* is missing the load raises FileNotFoundError "File not found: <path>".
C11_MissingFileRaisesOnce ==
    (op = "load" /\ StartsWith(uri, SchemeFile)) =>
        /\ \A i \in DOMAIN events :
              /\ IsOpen(events[i])
              /\ SameText(events[i].path, ReplaceFirst(uri, SchemeFile))
        /\ Len(events) <= 1
        /\ attempt = 0
        /\ pc \in {"start", "done"}
        /\ pc = "done" =>
              /\ Len(events) = 1
              /\ file_state = "missing" =>
                    /\ outcome.kind = "raised"
                    /\ outcome.error.type = "FileNotFoundError"
                    /\ outcome.error.code = <<>>
                    /\ SameText(Str(outcome.error),
                                MsgFileNotFound \o ReplaceFirst(uri, SchemeFile))
              /\ file_state = "present" => outcome.kind = "returned"

\* A missing file, with a gateway configured in the environment: one open of
\* the path, the file-not-found error raised.
C11_Witness ==
    /\ op = "load"
    /\ SameText(uri, UriFile)
    /\ file_state = "missing"
    /\ env_gateway.set
    /\ pc = "done"
    /\ outcome.kind = "raised"
    /\ outcome.error.type = "FileNotFoundError"
    /\ Len(events) = 1
    /\ IsOpen(events[1])
    /\ SameText(events[1].path, PathFile)

HasKnownScheme(u) ==
    \/ StartsWith(u, SchemeFile)
    \/ StartsWith(u, SchemeIpfs)
    \/ StartsWith(u, SchemeHttp)
    \/ StartsWith(u, SchemeHttps)

\* C12: load of a string that starts with none of file://, ipfs://, http://,
\* https:// returns the string itself, character for character; it raises
\* nothing, opens no file and sends no request.
C12_UnknownSchemePassesThrough ==
    (op = "load" /\ ~HasKnownScheme(uri)) =>
        /\ events = <<>>
        /\ attempt = 0
        /\ pc \in {"start", "done"}
        /\ pc = "done" =>
              /\ outcome.kind = "returned"
              /\ outcome.value = uri
              /\ Expand(outcome.value) = Expand(uri)

\* A string whose scheme is written in capitals, with a gateway configured and
\* no file behind it: returned as it is.
C12_Witness ==
    /\ op = "load"
    /\ SameText(uri, UriUpper)
    /\ env_gateway.set
    /\ file_state = "missing"
    /\ pc = "done"
    /\ outcome = Returned(UriUpper)
    /\ events = <<>>

IsInvoke(e) == e.ev = "invoke"

\* The tuples handed to the contract function so far, in order.
Invoked == SelectSeq(events, IsInvoke)

\* Every optional argument of give_feedback has its default.
FeedbackAllDefault(a) ==
    /\ a.value = PyInt(0)
    /\ a.value_decimals = PyInt(0)
    /\ a.tag1 = PyStr(<<>>)
    /\ a.tag2 = PyStr(<<>>)
    /\ a.endpoint = PyStr(<<>>)
    /\ a.feedback_uri = PyStr(<<>>)
    /\ a.feedback_hash = ZeroBytes32

\* The code of a sentiment: Neutral 0, Positive 1, Negative 2, in any letter case.
SentimentCode(s) ==
    IF Lower(s) = Expand(SentimentPositive) THEN 1
    ELSE IF Lower(s) = Expand(SentimentNegative) THEN 2
    ELSE 0

\* C13: every tuple give_feedback hands to ReputationRegistry.giveFeedback is
\* the 3-field tuple (agent id, text, sentiment code) when every optional
\* argument has its default, and otherwise the 10-field tuple (agent id, text,
\* sentiment code, value, value_decimals, tag1, tag2, endpoint, feedback_uri,
\* feedback_hash) with the arguments as given and the others at their defaults.
C13_FeedbackTupleShape ==
    op = "give_feedback" =>
        \A i \in DOMAIN events :
            IsInvoke(events[i]) =>
                LET p == events[i].params
                IN  /\ SameText(events[i].contract, NameReputation)
                    /\ SameText(events[i].function, FnGiveFeedback)
                    /\ Len(p) \in {3, 10}
                    /\ Len(p) = 3 <=> FeedbackAllDefault(args)
                    /\ p[1] = args.agent_id
                    /\ p[2] = args.feedback_text
                    /\ p[3] = PyInt(SentimentCode(args.sentiment.s))
                    /\ Len(p) = 10 =>
                          /\ p[4] = args.value
                          /\ p[5] = args.value_decimals
                          /\ p[6] = args.tag1
                          /\ p[7] = args.tag2
                          /\ p[8] = args.endpoint
                          /\ p[9] = args.feedback_uri
                          /\ p[10] = args.feedback_hash

\* Feedback with tag1 = "x" and nothing else given went through: the tuple has
\* ten fields, the tag in the sixth place and the defaults around it.
C13_Witness ==
    /\ op = "give_feedback"
    /\ pc = "done"
    /\ outcome.kind = "returned"
    /\ args = [GiveFeedbackDefaults EXCEPT !.tag1 = PyStr(TxtTag)]
    /\ Len(Invoked) = 1
    /\ Invoked[1].params =
          <<PyInt(7), PyStr(TxtGreat), PyInt(1), PyInt(0), PyInt(0), PyStr(TxtTag),
            PyStr(<<>>), PyStr(<<>>), PyStr(<<>>), ZeroBytes32>>

\* C14: append_response hands ReputationRegistry.appendResponse the 3-field
\* tuple (agent id, feedback index, text) exactly when client_address and
\* response_uri are empty and response_hash is 32 zero bytes, and otherwise the
\* 6-field tuple (agent id, client address, feedback index, text, uri, hash);
\* complete_validation and reject_validation hand their contract function the
\* 3-field tuple (request id, uri, hash) exactly when tag is empty and response
\* is the default (100 to complete, 0 to reject), and otherwise the 5-field
\* tuple with tag and response appended.
C14_ResponseAndValidationTupleShape ==
    \A i \in DOMAIN events :
        IsInvoke(events[i]) =>
            LET p == events[i].params
            IN  /\ op = "append_response" =>
                      /\ SameText(events[i].function, FnAppendResponse)
                      /\ Len(p) \in {3, 6}
                      /\ Len(p) = 3 <=>
                            /\ args.client_address = PyStr(<<>>)
                            /\ args.response_uri = PyStr(<<>>)
                            /\ args.response_hash = ZeroBytes32
                      /\ Len(p) = 3 =>
                            p = <<args.agent_id, args.feedback_index, args.response_text>>
                      /\ Len(p) = 6 =>
                            p = <<args.agent_id, args.client_address, args.feedback_index,
                                  args.response_text, args.response_uri, args.response_hash>>
                /\ op = "complete_validation" =>
                      /\ SameText(events[i].function, FnCompleteValidation)
                      /\ Len(p) \in {3, 5}
                      /\ Len(p) = 3 <=> (args.tag = PyStr(<<>>) /\ args.response = PyInt(100))
                      /\ SubSeq(p, 1, 3) = <<args.request_id, args.result_uri, args.result_hash>>
                      /\ Len(p) = 5 => SubSeq(p, 4, 5) = <<args.tag, args.response>>
                /\ op = "reject_validation" =>
                      /\ SameText(events[i].function, FnRejectValidation)
                      /\ Len(p) \in {3, 5}
                      /\ Len(p) = 3 <=> (args.tag = PyStr(<<>>) /\ args.response = PyInt(0))
                      /\ SubSeq(p, 1, 3) = <<args.request_id, args.result_uri, args.reason_hash>>
                      /\ Len(p) = 5 => SubSeq(p, 4, 5) = <<args.tag, args.response>>

\* A completion with no tag and response 0, which is the default of a rejection
\* and not of a completion, went through with the 5-field tuple.
C14_Witness ==
    /\ op = "complete_validation"
    /\ pc = "done"
    /\ outcome.kind = "returned"
    /\ args.tag = PyStr(<<>>)
    /\ args.response = PyInt(0)
    /\ Len(Invoked) = 1
    /\ Len(Invoked[1].params) = 5
    /\ Invoked[1].params[5] = PyInt(0)

\* The document argument of the AgentRegistry call.
RequestDoc ==
    IF request.method = "submit_validation" THEN request.request_data
    ELSE IF request.method = "complete_validation" THEN request.result_data
    ELSE request.reason_data

\* The hash field of a tuple handed to the ValidationRegistry.
HandedHash(e) ==
    IF SameText(e.function, FnValidationRequest) THEN e.params[4] ELSE e.params[3]

\* C15: in submit_validation, complete_validation and reject_validation of the
\* AgentRegistry the hash handed to the ledger is 32 zero bytes when the caller
\* gave no document and the Keccak-256 digest of the canonical form of the
\* document when the caller gave one, never the zero hash then.
C15_HashIsSentinelOrDigest ==
    request.method \in {"submit_validation", "complete_validation", "reject_validation"} =>
        \A i \in DOMAIN events :
            IsInvoke(events[i]) =>
                /\ RequestDoc = NoValue => HandedHash(events[i]) = ZeroBytes32
                /\ RequestDoc # NoValue =>
                      /\ HandedHash(events[i]) = keccak256_bytes(canonical_json(RequestDoc))
                      /\ HandedHash(events[i]) # ZeroBytes32

\* The contract a method of the TronClient writes to.
TargetAddress ==
    IF op = "register_agent" THEN identity_address
    ELSE IF op \in {"give_feedback", "append_response"} THEN reputation_address
    ELSE validation_address

\* The call reaches _send_transaction (the sentiment of a feedback is known).
ReachesSend ==
    op = "give_feedback" => sentiment_to_int(args.sentiment.s).found

\* C16: a ledger write on a client without a private key, or without an
\* address for the contract it writes to, raises ConfigurationError from its
\* first attempt: that attempt is the only event of the call, so nothing is
\* looked up, signed or broadcast, nothing sleeps and no second attempt is
\* made; and no attempt fails with ConfigurationError otherwise.
C16_ConfigurationErrorNotRetried ==
    /\ \A i \in DOMAIN events :
          (IsExec(events[i]) /\ ~events[i].ok /\ events[i].error.type = "ConfigurationError") =>
              /\ ~private_key \/ ~TargetAddress
              /\ Len(events) = 1
              /\ events[i].attempt = 1
              /\ pc = "done"
              /\ outcome = Raised(events[i].error)
              /\ ~is_retryable_error(events[i].error)
    /\ (ReachesSend /\ (~private_key \/ ~TargetAddress)) =>
          /\ Len(events) <= 1
          /\ pc \in {"start", "attempting", "done"}
          /\ attempt <= 1
          /\ pc = "done" =>
                /\ Len(events) = 1
                /\ IsExec(events[1])
                /\ outcome.kind = "raised"
                /\ outcome.error.type = "ConfigurationError"
                /\ SameText(outcome.error.message,
                            IF ~private_key THEN MsgPrivateKeyRequired
                            ELSE MsgNoAddressPrefix
                                     \o (IF op = "register_agent" THEN NameIdentity
                                         ELSE IF op \in {"give_feedback", "append_response"}
                                              THEN NameReputation
                                              ELSE NameValidation)
                                     \o MsgNoAddressSuffix)

\* A completion on a client with a key and the identity address but no
\* validation address: one attempt, the error raised.
C16_Witness ==
    /\ op = "complete_validation"
    /\ private_key
    /\ identity_address
    /\ ~validation_address
    /\ config.max_attempts = 3
    /\ pc = "done"
    /\ attempt = 1
    /\ Len(events) = 1
    /\ outcome.kind = "raised"
    /\ outcome.error.type = "ConfigurationError"

\* C17: give_feedback with a sentiment that is not positive, neutral or
\* negative (in any letter case) raises from its first attempt: that attempt
\* is the only event of the call, so nothing sleeps, no second attempt is made
\* and no transaction is handed to the ledger.
C17_InvalidSentimentNotRetried ==
    (op = "give_feedback" /\ ~(Lower(args.sentiment.s) \in
         {Expand(SentimentPositive), Expand(SentimentNeutral), Expand(SentimentNegative)})) =>
        /\ Len(events) <= 1
        /\ attempt <= 1
        /\ \A i \in DOMAIN events : IsExec(events[i]) /\ ~events[i].ok
        /\ pc = "done" =>
              /\ Len(events) = 1
              /\ outcome = Raised(events[1].error)

IsCancel(e) == e.ev = "cancel"

\* C18: once the caller has cancelled a retried call, during a backoff sleep or
\* during an attempt, the call is over with CancelledError raised to the
\* caller: the cancelled attempt is the last execution, no sleep follows, and
\* the cancellation is not recorded as the failure of an attempt that the
\* policy classifies (last_error is not set to it).
C18_CancellationPropagates ==
    op = "func" =>
        /\ \A i \in DOMAIN events :
              IsCancel(events[i]) =>
                  /\ pc = "done"
                  /\ outcome.kind = "raised"
                  /\ outcome.error.type = "CancelledError"
                  /\ i >= Len(events) - 1
                  /\ i < Len(events) =>
                        /\ IsExec(events[i + 1])
                        /\ ~events[i + 1].ok
                        /\ events[i + 1].error = outcome.error
                        /\ i > 1 => (IsSleep(events[i - 1]) /\ attempt > 1)
                  /\ i = Len(events) => (i > 1 /\ IsSleep(events[i - 1]))
        /\ last_error.type # "CancelledError"
        /\ Cardinality({i \in DOMAIN events : IsCancel(events[i])}) <= 1

\* A call with three attempts allowed, cancelled in the sleep after its first
\* attempt: one execution, the cancellation raised.
C18_Witness ==
    /\ op = "func"
    /\ config.max_attempts = 3
    /\ pc = "done"
    /\ Len(events) = 3
    /\ RetryableFailure(events[1])
    /\ IsSleep(events[2])
    /\ IsCancel(events[3])
    /\ outcome.kind = "raised"
    /\ outcome.error.type = "CancelledError"
    /\ last_error = events[1].error

\* The sleeps of the call so far, in order.
Sleeps == SelectSeq(events, IsSleep)

\* The delay before attempt k + 1, before jitter.
PreJitter(k) == calculate_delay(k + 1, [config EXCEPT !.jitter = FALSE])

\* C19: under a policy with base_delay >= 0, max_delay >= base_delay and
\* exponential_base > 1 the delay before attempt k + 1, before jitter, is one
\* value, at most max_delay and at most the delay before attempt k + 2; the
\* k-th sleep of a call is that value when jitter is off, and any delay it can
\* take is within a tenth of it when jitter is on, both ends of that range
\* among them.
C19_BackoffMonotoneAndCapped ==
    (op = "func" /\ config.base_delay >= 0 /\ config.max_delay >= config.base_delay
        /\ config.exponential_base > 1) =>
        /\ \A k \in 1..config.max_attempts :
              /\ Cardinality(PreJitter(k)) = 1
              /\ \A d \in PreJitter(k) :
                    /\ d >= 0
                    /\ d <= config.max_delay
                    /\ \A e \in PreJitter(k + 1) : d <= e
        /\ \A k \in 1..Len(Sleeps) :
              \A d \in PreJitter(k) :
                  IF config.jitter
                  THEN /\ \A s \in Sleeps[k].delays :
                              s >= d - Tenth(d) /\ s <= d + Tenth(d)
                       /\ {d - Tenth(d), d, d + Tenth(d)} \subseteq Sleeps[k].delays
                  ELSE Sleeps[k].delays = {d}

\* Base 1 s, cap 3 s, factor 2, no jitter: the sleeps are 1 s, 2 s and, capped,
\* 3 s.
C19_Witness ==
    /\ op = "func"
    /\ ~config.jitter
    /\ config.base_delay = 1000
    /\ config.max_delay = 3000
    /\ config.exponential_base = 2
    /\ Len(Sleeps) = 3
    /\ Sleeps[1].delays = {1000}
    /\ Sleeps[2].delays = {2000}
    /\ Sleeps[3].delays = {3000}

\* The keys of every dict of v, at every nesting level, are in ascending
\* order.
RECURSIVE IsAscending(_)
IsAscending(v) ==
    /\ v.t = "dict" =>
           \A i \in 1..(Len(v.items) - 1) : LessChars(v.items[i].k, v.items[i + 1].k)
    /\ \A i \in 1..Len(v.items) : IsAscending(v.items[i].v)

\* C20: every reordering of the keys of a hashed document, at any nesting
\* level, has the same canonical_json bytes and the same compute_metadata_hash
\* digest as the document; the bytes are those of the reordering whose keys
\* ascend at every level, written in that order.
C20_HashIsOrderInvariant ==
    (pc = "done" /\ request.method = "compute_metadata_hash") =>
        LET doc == request.metadata
            out == canonical_json(doc)
        IN  /\ outcome = Returned(compute_metadata_hash(doc))
            /\ \E p \in Reorderings(doc) : IsAscending(p)
            /\ \A p \in Reorderings(doc) :
                  /\ canonical_json(p) = out
                  /\ compute_metadata_hash(p) = outcome.value
                  /\ IsAscending(p) => out = JsonDumps(p, FALSE)

\* A document with keys out of order at two levels has been hashed; the digest
\* is that of the bytes json.dumps writes for it.
C20_Witness ==
    /\ pc = "done"
    /\ request.method = "compute_metadata_hash"
    /\ request.metadata = DocDigitKeys
    /\ ~IsAscending(request.metadata)
    /\ canonical_json(request.metadata) = Expand(JsonDigitKeys)
    /\ canonical_json(DocPrefixKeys) = Expand(JsonPrefixKeys)
    /\ canonical_json(DocMixedCase) = Expand(JsonMixedCase)
    /\ outcome = Returned(keccak256_hex(Expand(JsonDigitKeys)))

\* ------------------------------------------------------------ C21 .. C30

\* C21: normalize_hash of any rendering of a hex digest (any letter case, with
\* or without 0x) is the digest in lower case without prefix, the same for
\* every rendering of that digest, and normalizing the result again returns it
\* unchanged.
C21_NormalizeHashCanonical ==
    (pc = "done" /\ request.method = "normalize_hash") =>
        \A d \in HexDigests :
            Expand(request.value) \in Renderings(d) =>
                /\ outcome.kind = "returned"
                /\ Expand(outcome.value) = Lower(d)
                /\ \A r \in Renderings(d) : normalize_hash(Word(r)) = outcome.value
                /\ normalize_hash(outcome.value) = outcome.value

\* 0XAB1F has been normalized to ab1f.
C21_Witness ==
    /\ pc = "done"
    /\ request.method = "normalize_hash"
    /\ Expand(request.value) = <<"0", "X", "A", "B", "1", "F">>
    /\ Expand(outcome.value) = <<"a", "b", "1", "f">>

\* min(max_delay, base_delay * exponential_base^(n - 1)): the delay the policy
\* sets after the failure of attempt n, before jitter.
BackoffAfter(n) ==
    Min(config.max_delay, config.base_delay * Pow(config.exponential_base, n - 1))

\* C22: the first event of a retried call is the first attempt; a sleep comes
\* only right after a retryable failure of an attempt n < max_attempts, once,
\* with delay min(max_delay, base_delay * exponential_base^(n - 1)) (within a
\* tenth of it under jitter), and attempt n + 1 follows it; every attempt
\* after the first comes right after a sleep; a finished call does not end
\* with a sleep, and an exhausted call has slept max_attempts - 1 times.
C22_SleepOnlyBetweenAttempts ==
    (op = "func" /\ config.max_attempts >= 1) =>
        /\ events # <<>> => (IsExec(events[1]) /\ events[1].attempt = 1)
        /\ \A i \in 1..Len(events) :
              /\ IsSleep(events[i]) =>
                     /\ i > 1
                     /\ RetryableFailure(events[i - 1])
                     /\ events[i - 1].attempt < config.max_attempts
                     /\ LET d == BackoffAfter(events[i - 1].attempt)
                        IN  IF config.jitter
                            THEN \A s \in events[i].delays :
                                     s >= d - Tenth(d) /\ s <= d + Tenth(d)
                            ELSE events[i].delays = {d}
                     /\ i < Len(events) =>
                            /\ IsExec(events[i + 1])
                            /\ events[i + 1].attempt = events[i - 1].attempt + 1
              /\ (IsExec(events[i]) /\ i > 1) => IsSleep(events[i - 1])
              /\ (RetryableFailure(events[i]) /\ events[i].attempt < config.max_attempts
                      /\ i < Len(events)) => IsSleep(events[i + 1])
        /\ (pc = "done" /\ events # <<>>) =>
              LET last == events[Len(events)]
              IN  /\ IsExec(last)
                  /\ (RetryableFailure(last) /\ last.attempt = config.max_attempts) =>
                         /\ Len(Sleeps) = config.max_attempts - 1
                         /\ outcome = Raised(last.error)

\* A call exhausted after four attempts under base 1 s, factor 2, no jitter:
\* it slept 1 s, 2 s and 4 s, and not after the fourth failure.
C22_Witness ==
    /\ op = "func"
    /\ pc = "done"
    /\ ~config.jitter
    /\ config.base_delay = 1000
    /\ config.max_delay = 30000
    /\ config.exponential_base = 2
    /\ Len(ExecSeq) = config.max_attempts
    /\ RetryableFailure(events[Len(events)])
    /\ Len(Sleeps) = 3
    /\ Sleeps[1].delays = {config.base_delay}
    /\ Sleeps[2].delays = {2000}
    /\ Sleeps[3].delays = {4000}

\* The eight keywords of the classification.
ClaimedKeywords ==
    {<<"timeout">>, <<"connection">>, <<"network">>, <<"unavailable">>, <<"refused">>,
     <<"rpc">>, <<"node">>, <<"gateway">>}

\* The lower-cased text of the error e contains one of the eight keywords.
MentionsKeyword(e) ==
    \E k \in ClaimedKeywords : ContainsChars(Lower(Str(e)), Expand(k))

\* C23: is_retryable_error(e) is true exactly when str(e), lower-cased,
\* contains one of timeout, connection, network, unavailable, refused, rpc,
\* node, gateway; two errors with the same text are classified alike,
\* whatever their types.
C23_ClassificationByText ==
    (pc = "done" /\ request.method = "is_retryable_error") =>
        /\ outcome = Returned(MentionsKeyword(request.error))
        /\ \A e \in ClassifiedErrors :
               SameText(Str(e), Str(request.error)) =>
                   is_retryable_error(e) = outcome.value

\* A ValueError with the message RPC has been classified retryable, and the
\* same message in a ConfigurationError is classified the same way.
C23_Witness ==
    /\ pc = "done"
    /\ request.method = "is_retryable_error"
    /\ request.error = PlainError("ValueError", Word(<<"R", "P", "C">>))
    /\ outcome = Returned(TRUE)
    /\ is_retryable_error(PlainError("TimeoutError", <<>>)) = FALSE
    /\ is_retryable_error(PlainError("ValueError", TxtTimeOut)) = FALSE
    /\ is_retryable_error(PlainError("ValueError", TxtNodejs)) = TRUE

DualLayoutOps == {"give_feedback", "append_response", "complete_validation", "reject_validation"}

\* The legacy and the extended tuple of the call in progress, built from its
\* arguments.
LegacyTuple ==
    IF op = "give_feedback" THEN give_feedback_legacy(args)
    ELSE IF op = "append_response" THEN append_response_legacy(args)
    ELSE IF op = "complete_validation" THEN complete_validation_legacy(args)
    ELSE reject_validation_legacy(args)

ExtendedTuple ==
    IF op = "give_feedback" THEN give_feedback_extended(args)
    ELSE IF op = "append_response" THEN append_response_extended(args)
    ELSE IF op = "complete_validation" THEN complete_validation_extended(args)
    ELSE reject_validation_extended(args)

IsPrefix(s, t) == Len(s) <= Len(t) /\ SubSeq(t, 1, Len(s)) = s

\* C24 as stated: for feedback submission, response-append, validation
\* completion and validation rejection the legacy tuple is a prefix of the
\* extended tuple built from the same arguments, so that every tuple handed to
\* the contract begins with the legacy tuple.
C24_LegacyIsPrefixOfExtended ==
    op \in DualLayoutOps =>
        \A i \in DOMAIN events :
            IsInvoke(events[i]) =>
                /\ IsPrefix(LegacyTuple, ExtendedTuple)
                /\ IsPrefix(LegacyTuple, events[i].params)

\* C24, amended: the legacy tuple is a proper prefix of the extended tuple for
\* feedback submission, validation completion and validation rejection; for
\* response-append the extended tuple is (agent id, client address, feedback
\* index, text, uri, hash): the client address stands in second place, before
\* two of the legacy fields, and the legacy tuple is not a prefix of it.  Every
\* tuple handed to the contract is one of the two.
C24_ExtendedKeepsLegacyOrder ==
    op \in DualLayoutOps =>
        /\ op # "append_response" =>
               /\ IsPrefix(LegacyTuple, ExtendedTuple)
               /\ Len(LegacyTuple) < Len(ExtendedTuple)
        /\ op = "append_response" =>
               /\ LegacyTuple = <<args.agent_id, args.feedback_index, args.response_text>>
               /\ ExtendedTuple =
                      <<LegacyTuple[1], args.client_address, LegacyTuple[2], LegacyTuple[3],
                        args.response_uri, args.response_hash>>
               /\ ~IsPrefix(LegacyTuple, ExtendedTuple)
        /\ \A i \in DOMAIN events :
               IsInvoke(events[i]) => events[i].params \in {LegacyTuple, ExtendedTuple}

\* A response with a client address went through: the tuple handed over has
\* six fields, the client address second and the feedback index third.
C24_Witness ==
    /\ op = "append_response"
    /\ pc = "done"
    /\ outcome.kind = "returned"
    /\ args.client_address = PyStr(TxtClient)
    /\ Len(Invoked) = 1
    /\ Invoked[1].params = ExtendedTuple
    /\ Invoked[1].params[2] = PyStr(TxtClient)
    /\ Invoked[1].params[3] = args.feedback_index

\* The caller's arguments ask for the extended layout.
AsksExtended ==
    IF op = "give_feedback" THEN ~FeedbackAllDefault(args)
    ELSE IF op = "append_response"
         THEN ~(/\ args.client_address = PyStr(<<>>)
                /\ args.response_uri = PyStr(<<>>)
                /\ args.response_hash = ZeroBytes32)
    ELSE IF op = "complete_validation"
         THEN ~(args.tag = PyStr(<<>>) /\ args.response = PyInt(100))
    ELSE ~(args.tag = PyStr(<<>>) /\ args.response = PyInt(0))

\* The contract and the function of a dual-layout operation.
ShapedContract ==
    IF op \in {"give_feedback", "append_response"} THEN NameReputation ELSE NameValidation

ShapedFunction ==
    IF op = "give_feedback" THEN FnGiveFeedback
    ELSE IF op = "append_response" THEN FnAppendResponse
    ELSE IF op = "complete_validation" THEN FnCompleteValidation
    ELSE FnRejectValidation

\* C25: in one call of a dual-layout operation every attempt hands the ledger
\* the same contract, function and parameter tuple, and these are the ones the
\* caller's arguments determine: whatever the attempt number and the failures
\* before it.
C25_ShapeFixedAcrossAttempts ==
    op \in DualLayoutOps =>
        /\ \A i, j \in DOMAIN events :
               (IsInvoke(events[i]) /\ IsInvoke(events[j])) =>
                   /\ events[i].contract = events[j].contract
                   /\ events[i].function = events[j].function
                   /\ events[i].params = events[j].params
        /\ \A i \in DOMAIN events :
               IsInvoke(events[i]) =>
                   /\ SameText(events[i].contract, ShapedContract)
                   /\ SameText(events[i].function, ShapedFunction)
                   /\ events[i].params = IF AsksExtended THEN ExtendedTuple ELSE LegacyTuple

\* Feedback with a tag, failed twice with a retryable error and handed over a
\* third time: three tuples of ten fields, alike.
C25_Witness ==
    /\ op = "give_feedback"
    /\ args = [GiveFeedbackDefaults EXCEPT !.tag1 = PyStr(TxtTag)]
    /\ attempt = 3
    /\ Len(Invoked) = 3
    /\ Len(Invoked[1].params) = 10
    /\ Invoked[3] = Invoked[1]
    /\ \E i \in DOMAIN events : RetryableFailure(events[i])

\* The executions recorded in the frame f, in order.
FrameExecs(f) == SelectSeq(f.events, IsExec)

\* The call of frame f went as a call running alone goes: its attempts are
\* numbered 1, 2, .. without a gap, at most max_attempts of them; its counter
\* and its last_error are those of its own last attempt; while it is not over
\* all its attempts failed with retryable errors; once over it returned the
\* value of its own last attempt, or raised that attempt's error, fatal or the
\* max_attempts-th.
FrameIsOwn(f) ==
    LET ex == FrameExecs(f)
        n == Len(ex)
    IN  /\ \A k \in 1..n : ex[k].attempt = k
        /\ n <= config.max_attempts
        /\ f.attempt = IF f.pc = "attempting" THEN n + 1 ELSE n
        /\ f.last_error =
               IF n = 0 \/ (n = 1 /\ ex[1].ok) THEN None
               ELSE IF ex[n].ok THEN ex[n - 1].error
               ELSE ex[n].error
        /\ \A k \in 1..(n - 1) : RetryableFailure(ex[k])
        /\ f.pc # "done" =>
               /\ f.outcome = Pending
               /\ n > 0 => RetryableFailure(ex[n])
        /\ f.pc = "done" =>
               /\ n > 0
               /\ IF ex[n].ok
                  THEN f.outcome = Returned(ex[n].value)
                  ELSE /\ f.outcome = Raised(ex[n].error)
                       /\ FatalFailure(ex[n]) \/ n = config.max_attempts

\* C26: of two calls running on one event loop under DEFAULT_RETRY_CONFIG each
\* goes as a call running alone goes, whatever the other does in between; and
\* the policy keeps the field values it was built with.
C26_CallsAreIndependent ==
    (op = "func" /\ suspended # NoFrame) =>
        /\ FrameIsOwn(CurrentFrame)
        /\ FrameIsOwn(suspended)
        /\ config = RetryConfig(3, 1000, 30000, 2, TRUE)

\* Both calls are in the middle of their backoff: the running one has failed
\* once, the suspended one twice, each with its own error and its own count.
C26_Witness ==
    /\ op = "func"
    /\ suspended # NoFrame
    /\ pc = "sleeping"
    /\ attempt = 1
    /\ last_error.type = "ConnectionError"
    /\ Len(FrameExecs(CurrentFrame)) = 1
    /\ suspended.pc = "sleeping"
    /\ suspended.attempt = 2
    /\ suspended.last_error.type = "TimeoutError"
    /\ Len(FrameExecs(suspended)) = 2

ApiOps == {"get_agent", "sync_agent", "upload_to_ipfs"}

\* C28: every failure of a retried Backend API operation is a NetworkError
\* whose text carries NETWORK_ERROR, and it is retried: the operation raises
\* only from its max_attempts-th execution, all executions having failed, and
\* so it is for get_agent answered 404 with the text 'Agent <id> not found'.
C28_NetworkErrorAlwaysRetried ==
    op \in ApiOps =>
        /\ \A i \in DOMAIN events :
               (IsExec(events[i]) /\ ~events[i].ok) =>
                   /\ events[i].error.type = "NetworkError"
                   /\ ContainsChars(Expand(Str(events[i].error)),
                                    <<"N", "E", "T", "W", "O", "R", "K", "_",
                                      "E", "R", "R", "O", "R">>)
                   /\ RetryableFailure(events[i])
                   /\ events[i].attempt < config.max_attempts =>
                          (pc # "done" /\ outcome = Pending) \/ i < Len(events)
        /\ (pc = "done" /\ outcome.kind = "raised") =>
               /\ Len(ExecSeq) = config.max_attempts
               /\ \A k \in 1..Len(ExecSeq) : RetryableFailure(ExecSeq[k])
               /\ outcome.error = ExecSeq[Len(ExecSeq)].error

\* get_agent(7) was answered 404 three times: three executions, then
\* NetworkError 'Agent 7 not found' reached the caller.
C28_Witness ==
    /\ op = "get_agent"
    /\ pc = "done"
    /\ outcome.kind = "raised"
    /\ outcome.error.type = "NetworkError"
    /\ Expand(outcome.error.message) = Expand(MsgAgent \o <<"7">> \o MsgNotFound)
    /\ Len(ExecSeq) = 3
    /\ \A i \in DOMAIN events : events[i].ev = "api" => events[i].code = 404

\* C29: under a policy with max_attempts <= 0 a retried call never executes
\* the wrapped operation, never sleeps and never raises: it is over at once
\* and the caller gets None.  Under max_attempts >= 1 a call that returned
\* executed the operation at least once, its last execution succeeded and the
\* value returned is that execution's.
C29_NoAttemptsReturnsNone ==
    op = "func" =>
        /\ config.max_attempts <= 0 =>
               /\ events = <<>>
               /\ attempt = 0
               /\ last_error = None
               /\ pc \in {"start", "done"}
               /\ pc = "done" => outcome = Returned(None)
        /\ (config.max_attempts >= 1 /\ pc = "done" /\ outcome.kind = "returned") =>
               /\ Len(ExecSeq) >= 1
               /\ Success(ExecSeq[Len(ExecSeq)])
               /\ outcome.value = ExecSeq[Len(ExecSeq)].value

\* A call under max_attempts = 0 is over: nothing was executed and the caller
\* got None.
C29_Witness ==
    /\ op = "func"
    /\ config.max_attempts = 0
    /\ pc = "done"
    /\ outcome = Returned(None)
    /\ events = <<>>

\* The requests of register_agent to the backend, by their URL.
UploadUrl == Word(Expand(TxtApiBase \o PathUpload))

IsUploadRequest(e) == e.ev = "api" /\ e.url = UploadUrl

IsSyncRequest(e) ==
    /\ e.ev = "api"
    /\ StartsWithChars(Expand(e.url), Expand(TxtApiBase \o PathAgents))

\* The execution recorded at j is one of upload_to_ipfs that returned.
IsUploadReturn(j) ==
    /\ j > 1
    /\ events[j].ev = "exec"
    /\ events[j].ok
    /\ IsUploadRequest(events[j - 1])

\* What _send_transaction does at the node.
IsLedgerStep(e) == e.ev \in {"lookup", "invoke", "sign", "broadcast"}

\* C27: in register_agent every step at the node (contract lookup, call,
\* signature, broadcast) comes after an execution of upload_to_ipfs that
\* returned, and the contract function is called with the URI that upload
\* returned; when the upload has failed,
\* register_agent raises the upload's error and nothing has been done at the
\* node.
C27_UploadBeforeLedger ==
    /\ \A i \in DOMAIN events :
          IsLedgerStep(events[i]) =>
              \E j \in 1..(i - 1) :
                  /\ IsUploadReturn(j)
                  /\ registration.token_uri = events[j].value
                  /\ IsInvoke(events[i]) => events[i].params[1] = events[j].value
    /\ (registration.step = "over" /\ ~\E j \in DOMAIN events : IsUploadReturn(j)) =>
          /\ outcome.kind = "raised"
          /\ outcome.error.type = "NetworkError"
          /\ StartsWith(outcome.error.message, MsgUploadFailed)
          /\ ~\E i \in DOMAIN events : IsLedgerStep(events[i])

\* register_agent is over: the upload failed once and then returned the
\* second URI, and the transaction broadcast carries that URI.
C27_Witness ==
    /\ registration.step = "over"
    /\ outcome.kind = "returned"
    /\ \E j \in DOMAIN events :
          /\ IsUploadReturn(j)
          /\ events[j].value = PyStr(UriIpfs2)
          /\ \E h \in 1..(j - 1) : events[h].ev = "exec" /\ ~events[h].ok
          /\ \E i \in (j + 1)..Len(events) :
                /\ IsInvoke(events[i])
                /\ events[i].params[1] = PyStr(UriIpfs2)
          /\ \E i \in (j + 1)..Len(events) : events[i].ev = "broadcast"

\* The execution recorded at j is one of _send_transaction that returned a
\* transaction id.
IsLedgerReturn(j) ==
    /\ j > 1
    /\ events[j].ev = "exec"
    /\ events[j].ok
    /\ events[j - 1].ev = "broadcast"

\* C30: in register_agent every sync request follows an execution of the
\* ledger submission that returned a transaction id; once the submission has
\* returned one, register_agent when over has returned that id, whatever the
\* sync call did, and no error register_agent raises is the sync's.
C30_SyncFailureIsSwallowed ==
    /\ \A i \in DOMAIN events :
          IsSyncRequest(events[i]) => \E j \in 1..(i - 1) : IsLedgerReturn(j)
    /\ \A j \in DOMAIN events :
          (IsLedgerReturn(j) /\ registration.step = "over") =>
              outcome = Returned(events[j].value)
    /\ (registration.step = "over" /\ outcome.kind = "raised") =>
          ~StartsWith(outcome.error.message, MsgSyncFailed)

\* register_agent is over and has returned the transaction id, the sync
\* having failed at each of its three executions.
C30_Witness ==
    /\ registration.step = "over"
    /\ outcome.kind = "returned"
    /\ outcome.value = registration.tx_id
    /\ Cardinality({i \in DOMAIN events : IsSyncRequest(events[i])}) = 3
    /\ events[Len(events)].ev = "exec"
    /\ ~events[Len(events)].ok
    /\ StartsWith(events[Len(events)].error.message, MsgSyncFailed)
====
